---- MODULE Spec2Model ----
(***************************************************************************)
(* Model of the Molecule kernel's memory-management core:                  *)
(*   memory/addr.rs, memory/memmap.rs, memory/bootstrap.rs,                *)
(*   memory/frame.rs (buddy frame allocator) and                           *)
(*   arch/x86_64/paging (page-table walker/mutator).                       *)
(* Addresses are byte addresses, as in the source.                         *)
(***************************************************************************)
EXTENDS Integers, Sequences, FiniteSets, Bags, TLC

(***************************************************************************)
(* Bounds of the model (not program constants).                            *)
(***************************************************************************)
\* largest number of live (allocated, not yet freed) blocks the callers hold
MaxLive == 3
\* first USABLE entry of a generated memory map: MinLen..MaxLen1 pages
MaxLen1 == 8
\* second USABLE entry of a generated memory map: 1..MaxLen2 pages
MaxLen2 == 4
\* base of the first entry of a generated memory map: page 0..MaxBasePage
MaxBasePage == 1

(***************************************************************************)
(* Program constants.                                                      *)
(***************************************************************************)
\* memory/mod.rs: PageSize4K::SIZE
PAGE_SIZE == 4096
\* frame.rs: BUDDY_SIZE.len()
BUDDY_LEN == 10
\* frame.rs: Bitmap::BLOCK_BITS = size_of::<usize>() * 8
BLOCK_BITS == 64
\* size_of::<MemoryRegion>(): PhysAddr (8) + usize (8) + a one-variant enum (0)
SIZEOF_MEMORY_REGION == 16
\* size_of::<usize>(), the element of Bitmap::bitmap
SIZEOF_USIZE == 8

Orders == 0..(BUDDY_LEN - 1)

\* frame.rs: const BUDDY_SIZE: [usize; 10]
BUDDY_SIZE == [o \in Orders |-> PAGE_SIZE * (2 ^ o)]

Min(S) == CHOOSE x \in S : \A y \in S : x <= y
Max2(a, b) == IF a >= b THEN a ELSE b

\* Option<T>
\* F(v) with v computed once: Rust's `let x = v;` before the code that uses x
With(v, F(_)) == CHOOSE out \in {F(x) : x \in {v}} : TRUE

None == [is_some |-> FALSE, value |-> 0]
Some(x) == [is_some |-> TRUE, value |-> x]

(***************************************************************************)
(* memory/addr.rs                                                          *)
(***************************************************************************)
\* align_up(addr, align): mask = align - 1; addr if addr & mask == 0,
\* else (addr | mask) + 1.  align is a power of two, so addr & mask is
\* addr % align and addr | mask is addr - addr % align + mask.
align_up(addr, align) ==
  IF addr % align = 0 THEN addr ELSE (addr - (addr % align) + (align - 1)) + 1

\* align_down(addr, align): addr & !(align - 1)
align_down(addr, align) == addr - (addr % align)

(***************************************************************************)
(* memory/frame.rs: Bitmap.  bitmap_len is the length of the Vec<usize>,   *)
(* bits the set of indices whose bit is 1.                                 *)
(***************************************************************************)
Bitmap_empty == [bitmap_len |-> 0, bits |-> {}]

calculate_blocks(bits) ==
  IF bits % BLOCK_BITS = 0 THEN bits \div BLOCK_BITS ELSE bits \div BLOCK_BITS + 1

Bitmap_new_in(size) == [bitmap_len |-> calculate_blocks(size), bits |-> {}]

\* get_index(idx).0
block_idx(idx) == idx \div BLOCK_BITS

\* a set that can only turn bits on
Bitmap_set_only(bm, idx, val) ==
  IF block_idx(idx) >= bm.bitmap_len THEN bm
  ELSE [bm EXCEPT !.bits = @ \cup {idx}]

\* Bitmap::set: get_mut(block_idx) is None past the end, and the write is dropped
Bitmap_set(bm, idx, val) ==
  IF block_idx(idx) >= bm.bitmap_len THEN bm
  ELSE IF val THEN [bm EXCEPT !.bits = @ \cup {idx}]
  ELSE [bm EXCEPT !.bits = @ \ {idx}]

\* Bitmap::is_set indexes self.bitmap[block_idx]: it panics past the end
is_set_panics(bm, idx) == block_idx(idx) >= bm.bitmap_len
Bitmap_is_set(bm, idx) == idx \in bm.bits

\* a search that returns the highest set bit
find_last_set(bm) ==
  IF bm.bits = {} THEN None ELSE Some(CHOOSE i \in bm.bits : \A j \in bm.bits : j <= i)

\* Bitmap::find_first_set: lowest set bit of the first non-zero word
find_first_set(bm) == IF bm.bits = {} THEN None ELSE Some(Min(bm.bits))

(***************************************************************************)
(* memory/frame.rs: BuddyFrameAllocator.  An allocator value is a record   *)
(* [buddies, free, base, end, size], the struct's fields.  An operator     *)
(* that can panic returns [a |-> allocator, panic |-> BOOLEAN, ...]: an    *)
(* index past a Vec's end and an unsigned subtraction below zero both end  *)
(* the kernel (the wrapped index of a release build is past every bitmap). *)
(***************************************************************************)
\* LockedFrameAllocator::new: the allocator before init
UninitAllocator ==
  [buddies |-> [o \in Orders |-> Bitmap_empty],
   free    |-> [o \in Orders |-> 0],
   base    |-> 0,
   end     |-> 0,
   size    |-> 0]

\* get_bit_idx: (addr - self.base) / BUDDY_SIZE[order]; addr < base underflows
get_bit_idx_panics(a, addr) == addr < a.base
get_bit_idx(a, addr, order) == (addr - a.base) \div BUDDY_SIZE[order]

bit_access_panics(a, addr, order) ==
  \/ get_bit_idx_panics(a, addr)
  \/ is_set_panics(a.buddies[order], get_bit_idx(a, addr, order))

\* set_bit(addr, order) -> changed
set_bit(a, addr, order) ==
  IF bit_access_panics(a, addr, order) THEN [a |-> a, panic |-> TRUE, change |-> FALSE]
  ELSE LET idx == get_bit_idx(a, addr, order)
           change == ~Bitmap_is_set(a.buddies[order], idx)
       IN IF change
          THEN [a |-> [a EXCEPT !.buddies[order] = Bitmap_set(@, idx, TRUE),
                                !.free[order] = @ + 1],
                panic |-> FALSE, change |-> TRUE]
          ELSE [a |-> a, panic |-> FALSE, change |-> FALSE]

\* clear_bit(addr, order) -> changed
clear_bit(a, addr, order) ==
  IF bit_access_panics(a, addr, order) THEN [a |-> a, panic |-> TRUE, change |-> FALSE]
  ELSE LET idx == get_bit_idx(a, addr, order)
           change == Bitmap_is_set(a.buddies[order], idx)
       IN IF change
          THEN [a |-> [a EXCEPT !.buddies[order] = Bitmap_set(@, idx, FALSE),
                                !.free[order] = @ - 1],
                panic |-> FALSE, change |-> TRUE]
          ELSE [a |-> a, panic |-> FALSE, change |-> FALSE]

\* get_buddy(addr, order)
get_buddy(addr, order) ==
  LET size == BUDDY_SIZE[order]
      base == align_down(addr, size * 2)
  IN IF base = addr THEN addr + size ELSE base

\* an address computed from the base as it stands, not aligned up
find_free_addr_from_base(a, order, first_free) == a.base + (BUDDY_SIZE[order] * first_free)

\* the address find_free computes for bit first_free of class order
find_free_addr(a, order, first_free) ==
  align_up(a.base, BUDDY_SIZE[order]) + (BUDDY_SIZE[order] * first_free)

\* a find_free that also takes the block's bytes off the size field
find_free_counting(a, order) ==
  LET first_free == find_first_set(a.buddies[order])
  IN IF ~first_free.is_some THEN [a |-> a, result |-> None]
     ELSE [a |-> [a EXCEPT !.buddies[order] = Bitmap_set(@, first_free.value, FALSE),
                           !.free[order] = @ - 1,
                           !.size = @ - BUDDY_SIZE[order]],
           result |-> Some(find_free_addr(a, order, first_free.value))]

\* find_free(order): None when the bitmap holds no set bit
find_free(a, order) ==
  LET first_free == find_first_set(a.buddies[order])
  IN IF ~first_free.is_some THEN [a |-> a, result |-> None]
     ELSE [a |-> [a EXCEPT !.buddies[order] = Bitmap_set(@, first_free.value, FALSE),
                           !.free[order] = @ - 1],
           result |-> Some(find_free_addr(a, order, first_free.value))]

\* the address allocate_frame's split loop marks free at class j
split_addr(result, remaining, b) == result + (remaining - b)

\* the split loop's decrement
split_step(remaining, size, b) == remaining - size

\* allocate_frame's split loop: for j in (0..=i).rev() { while remaining >= b {..} }
RECURSIVE split_loop(_, _, _, _, _)
split_loop(a, result, size, j, remaining) ==
  IF j < 0 THEN [a |-> a, panic |-> FALSE]
  ELSE LET b == BUDDY_SIZE[j]
       IN IF remaining >= b
          THEN With(set_bit(a, split_addr(result, remaining, b), j), LAMBDA r :
                 IF r.panic THEN [a |-> r.a, panic |-> TRUE]
                 ELSE With(split_step(remaining, size, b), LAMBDA rest :
                        split_loop(r.a, result, size, j, rest)))
          ELSE split_loop(a, result, size, j - 1, remaining)

\* a scan that leaves out the class asked for
scan_classes_above(order) == (order + 1)..(BUDDY_LEN - 1)

\* the size classes allocate_frame scans: BUDDY_SIZE[order..]
scan_classes(order) == order..(BUDDY_LEN - 1)

\* allocate_frame(order) -> Option<PhysAddr>
allocate_frame(a, order) ==
  LET size == BUDDY_SIZE[order]
      cands == {i \in scan_classes(order) : a.free[i] > 0}
  IN IF cands = {} THEN [a |-> a, panic |-> FALSE, result |-> None]
     ELSE With(Min(cands), LAMBDA i : With(find_free(a, i), LAMBDA f :
            IF ~f.result.is_some THEN [a |-> f.a, panic |-> FALSE, result |-> None]
            ELSE LET remaining == BUDDY_SIZE[i] - size
                 IN With(IF remaining > 0
                         THEN split_loop(f.a, f.result.value, size, i, remaining)
                         ELSE [a |-> f.a, panic |-> FALSE],
                         LAMBDA s : [a |-> s.a, panic |-> s.panic, result |-> f.result])))

\* a deallocation that merges with the buddy whether or not the buddy is free
deallocate_frame_merging(a, addr, order) ==
  LET buddy == get_buddy(addr, order)
      s == IF order < BUDDY_LEN - 1
           THEN set_bit(a, IF addr <= buddy THEN addr ELSE buddy, order + 1)
           ELSE set_bit(a, addr, order)
  IN [a |-> s.a, panic |-> s.panic]

\* deallocate_frame(addr, order)
RECURSIVE deallocate_frame(_, _, _)
deallocate_frame(a, addr, order) ==
  IF order >= BUDDY_LEN THEN [a |-> a, panic |-> FALSE]
  ELSE IF order < BUDDY_LEN - 1
  THEN With(get_buddy(addr, order), LAMBDA buddy :
         With(clear_bit(a, buddy, order), LAMBDA c :
           IF c.panic THEN [a |-> c.a, panic |-> TRUE]
           ELSE IF c.change
           THEN With(IF addr <= buddy THEN addr ELSE buddy, LAMBDA lower :
                  deallocate_frame(c.a, lower, order + 1))
           ELSE With(set_bit(c.a, addr, order), LAMBDA s : [a |-> s.a, panic |-> s.panic])))
  ELSE With(set_bit(a, addr, order), LAMBDA s : [a |-> s.a, panic |-> s.panic])

\* LockedFrameAllocator::order_from_size (sizes above the largest class are unreachable!())
order_from_size(size) == Min({i \in Orders : BUDDY_SIZE[i] >= size})

\* a choice of class that always takes the smallest
find_order_smallest(addr, chunk_size) == Min(Orders)

\* find_order(addr, chunk_size): the largest class that fits and is aligned at addr
find_order(addr, chunk_size) ==
  LET fits == {o \in Orders : BUDDY_SIZE[o] <= chunk_size /\ addr % BUDDY_SIZE[o] = 0}
  IN IF fits = {} THEN 0 ELSE CHOOSE o \in fits : \A p \in fits : p <= o

\* insert_range(base, end): remaining -= size underflows when size > remaining
RECURSIVE insert_loop(_, _, _)
insert_loop(a, current, remaining) ==
  IF remaining <= 0 THEN [a |-> a, panic |-> FALSE]
  ELSE With(find_order(current, remaining), LAMBDA order :
         With(set_bit(a, current, order), LAMBDA s :
           LET size == BUDDY_SIZE[order]
           IN IF s.panic \/ size > remaining THEN [a |-> s.a, panic |-> TRUE]
              ELSE With(<<current + size, remaining - size>>, LAMBDA nx :
                     insert_loop(s.a, nx[1], nx[2]))))

insert_range(a, base, end) ==
  IF end < base THEN [a |-> a, panic |-> TRUE] ELSE insert_loop(a, base, end - base)

(***************************************************************************)
(* memory/memmap.rs: MemoryRegionIter.  A firmware entry is                *)
(* [base, length, entry_type]; the iterator state is [iter, cursor_base,   *)
(* cursor_end], iter being the index of the next entry of the map.         *)
(***************************************************************************)
USABLE == "USABLE"
RESERVED == "RESERVED"

Entry(b, l, t) == [base |-> b, length |-> l, entry_type |-> t]
MemoryRegion(b, s) == [base |-> b, size |-> s, region_type |-> "Free"]

\* an end that names the entry's last byte
entry_end_inclusive(e) == e.base + e.length - 1

entry_end(e) == e.base + e.length

\* the loop of next(): the next USABLE entry at or after it.iter, 0 if none
next_usable(map, from) ==
  LET js == {j \in from..Len(map) : map[j].entry_type = USABLE}
  IN IF js = {} THEN 0 ELSE Min(js)

\* MemoryRegionIter::next -> [it, item: Option<MemoryRegion>, panic]
\* cursor_end - cursor_base underflows when the aligned base passes the end
MemoryRegionIter_next(map, it) ==
  LET j == next_usable(map, it.iter)
      refill == it.cursor_base >= it.cursor_end
      cb == IF refill THEN align_up(map[j].base, PAGE_SIZE) ELSE it.cursor_base
      ce == IF refill THEN entry_end(map[j]) ELSE it.cursor_end
      ni == IF refill THEN j + 1 ELSE it.iter
  IN IF refill /\ j = 0 THEN [it |-> it, item |-> None, panic |-> FALSE]
     ELSE IF ce < cb THEN [it |-> it, item |-> None, panic |-> TRUE]
     ELSE [it |-> [iter |-> ni, cursor_base |-> align_up(ce, PAGE_SIZE), cursor_end |-> ce],
           item |-> Some(MemoryRegion(cb, ce - cb)),
           panic |-> FALSE]

\* frame.rs `for region in region_iter { regions[i] = region; i += 1; }`
RECURSIVE collect_regions(_, _, _)
collect_regions(map, it, acc) ==
  With(MemoryRegionIter_next(map, it), LAMBDA n :
    IF n.panic THEN [regions |-> acc, panic |-> TRUE]
    ELSE IF ~n.item.is_some THEN [regions |-> acc, panic |-> FALSE]
    ELSE With(Append(acc, n.item.value), LAMBDA acc2 : collect_regions(map, n.it, acc2)))

(***************************************************************************)
(* memory/bootstrap.rs: BootstrapAlloc                                     *)
(***************************************************************************)
\* an allocate that takes the last range that fits
BootstrapAlloc_allocate_last_fit(ranges, size0) ==
  LET size == align_up(size0, PAGE_SIZE)
      ks == {k \in 1..Len(ranges) : ranges[k].size >= size}
  IN IF ks = {} THEN [ranges |-> ranges, addr |-> 0, size |-> size, panic |-> TRUE]
     ELSE LET k == CHOOSE x \in ks : \A y \in ks : y <= x
          IN [ranges |-> [ranges EXCEPT ![k].base = @ + size, ![k].size = @ - size],
              addr |-> ranges[k].base, size |-> size, panic |-> FALSE]

\* an allocate that hands out the start of the range and leaves the range as it is
BootstrapAlloc_allocate_keeping(ranges, size0) ==
  LET size == align_up(size0, PAGE_SIZE)
      ks == {k \in 1..Len(ranges) : ranges[k].size >= size}
  IN IF ks = {} THEN [ranges |-> ranges, addr |-> 0, size |-> size, panic |-> TRUE]
     ELSE [ranges |-> ranges, addr |-> ranges[Min(ks)].base, size |-> size, panic |-> FALSE]

\* allocate(size) -> [ranges, addr, panic]; no range large enough is unreachable!()
BootstrapAlloc_allocate(ranges, size0) ==
  LET size == align_up(size0, PAGE_SIZE)
      ks == {k \in 1..Len(ranges) : ranges[k].size >= size}
  IN IF ks = {} THEN [ranges |-> ranges, addr |-> 0, size |-> size, panic |-> TRUE]
     ELSE LET k == Min(ks)
          IN [ranges |-> [ranges EXCEPT ![k].base = @ + size, ![k].size = @ - size],
              addr |-> ranges[k].base, size |-> size, panic |-> FALSE]

(***************************************************************************)
(* memory/frame.rs: BuddyFrameAllocator::new                               *)
(***************************************************************************)
\* bytes the Vec behind a bitmap of `blocks` words asks its allocator for:
\* resize() reserves max(4, blocks) elements (the Vec's smallest capacity)
bitmap_layout_size(blocks) == Max2(4, blocks) * SIZEOF_USIZE

\* the loop `for (i, bsize) in BUDDY_SIZE.iter().enumerate()`; an empty Vec
\* allocates nothing
RECURSIVE alloc_bitmaps(_, _, _, _, _)
alloc_bitmaps(a, ranges, size, o, carved) ==
  IF o >= BUDDY_LEN THEN [a |-> a, ranges |-> ranges, carved |-> carved, panic |-> FALSE]
  ELSE With(Bitmap_new_in(size \div BUDDY_SIZE[o]), LAMBDA bm :
         With([a EXCEPT !.buddies[o] = bm], LAMBDA a2 :
           IF bm.bitmap_len = 0 THEN alloc_bitmaps(a2, ranges, size, o + 1, carved)
           ELSE With(BootstrapAlloc_allocate(ranges, bitmap_layout_size(bm.bitmap_len)),
                     LAMBDA b :
                  IF b.panic
                  THEN [a |-> a, ranges |-> ranges, carved |-> carved, panic |-> TRUE]
                  ELSE With(Append(carved, [base |-> b.addr, size |-> b.size]),
                            LAMBDA carved2 :
                         alloc_bitmaps(a2, b.ranges, size, o + 1, carved2)))))

\* the loop over memory_ranges: insert_range, then this.size += region.size
RECURSIVE insert_regions(_, _, _)
insert_regions(a, ranges, k) ==
  IF k > Len(ranges) THEN [a |-> a, panic |-> FALSE]
  ELSE With(insert_range(a, ranges[k].base, ranges[k].base + ranges[k].size), LAMBDA r :
         IF r.panic THEN [a |-> r.a, panic |-> TRUE]
         ELSE With([r.a EXCEPT !.size = @ + ranges[k].size], LAMBDA a2 :
                insert_regions(a2, ranges, k + 1)))

requested_size(map) == align_up(SIZEOF_MEMORY_REGION * Len(map), PAGE_SIZE)

\* the entry the MemoryRegion array is carved from, 0 if none (expect() panics)
carve_entry(map) ==
  LET ks == {k \in 1..Len(map) :
               map[k].entry_type = USABLE /\ map[k].length >= requested_size(map)}
  IN IF ks = {} THEN 0 ELSE Min(ks)

\* the iterator new() builds: the first entry of the map is the cursor
initial_cursor(map) ==
  [iter |-> 2, cursor_base |-> map[1].base, cursor_end |-> entry_end(map[1])]

\* a base taken from the last region written
bounds_base_last(regions) == regions[Len(regions)].base

\* the bounds new() takes from the region array (i regions were written)
bounds_base(regions) == regions[1].base
bounds_end(regions) == regions[Len(regions)].base + regions[Len(regions)].size

\* BuddyFrameAllocator::new(memory_map_resp) ->
\*   [a, mem_map, ranges, carved, panic]: the allocator, the memory map with
\*   the carved entry adjusted, the bootstrap allocator's memory_ranges, and
\*   the ranges taken for the allocator's own metadata
BuddyFrameAllocator_new(map) ==
  LET k == carve_entry(map)
      req == requested_size(map)
      failed == [a |-> UninitAllocator, mem_map |-> map, ranges |-> <<>>,
                 carved |-> <<>>, panic |-> TRUE]
  IN IF k = 0 THEN failed
     ELSE With([map EXCEPT ![k].base = @ + req, ![k].length = @ - req], LAMBDA map2 :
          With(collect_regions(map2, initial_cursor(map2), <<>>), LAMBDA c :
            IF c.panic \/ Len(c.regions) = 0 THEN [failed EXCEPT !.mem_map = map2]
            ELSE LET array == [base |-> map[k].base, size |-> req]
                     base == bounds_base(c.regions)
                     end == bounds_end(c.regions)
                     this == [UninitAllocator EXCEPT !.base = base, !.end = end]
                 IN IF end < base THEN [failed EXCEPT !.mem_map = map2]
                    ELSE With(alloc_bitmaps(this, c.regions, end - base, 0, <<array>>),
                              LAMBDA bm :
                           IF bm.panic THEN [failed EXCEPT !.mem_map = map2]
                           ELSE With(insert_regions(bm.a, bm.ranges, 1), LAMBDA ins :
                                  [a |-> ins.a, mem_map |-> map2, ranges |-> bm.ranges,
                                   carved |-> bm.carved, panic |-> ins.panic]))))

(***************************************************************************)
(* arch/x86_64/paging/page_table.rs: PageTableEntry, PageTable.            *)
(* An entry is [addr, flags]: the bits under ADDR_MASK as an address and   *)
(* the set of flag bits under FLAGS_MASK.  A table is the function from    *)
(* the indices of its non-zero entries to those entries; physical memory   *)
(* is a function from frame addresses to the table each frame holds.       *)
(***************************************************************************)
\* page_table.rs: const ENTRY_COUNT
ENTRY_COUNT == 512

PRESENT == "PRESENT"
WRITEABLE == "WRITEABLE"
USER_ACCESSIBLE == "USER_ACCESSIBLE"
HUGE_PAGE == "HUGE_PAGE"

ZeroEntry == [addr |-> 0, flags |-> {}]
ZeroTable == << >>

\* an entry test that takes every entry for an empty one
is_unused_always(e) == TRUE

\* PageTableEntry::is_unused
is_unused(e) == e = ZeroEntry
entry_addr(e) == e.addr

\* Frame::containing_addr
containing_addr(addr) == align_down(addr, PAGE_SIZE)

\* a frame() that looks at PRESENT only
entry_frame_present_only(e) ==
  IF PRESENT \notin e.flags THEN [ok |-> FALSE, err |-> "FrameNotPresent", frame |-> 0]
  ELSE [ok |-> TRUE, err |-> "", frame |-> containing_addr(entry_addr(e))]

\* PageTableEntry::frame -> Result<Frame, FrameError>
entry_frame(e) ==
  IF PRESENT \notin e.flags THEN [ok |-> FALSE, err |-> "FrameNotPresent", frame |-> 0]
  ELSE IF HUGE_PAGE \in e.flags THEN [ok |-> FALSE, err |-> "HugePageNotSupported", frame |-> 0]
  ELSE [ok |-> TRUE, err |-> "", frame |-> containing_addr(entry_addr(e))]

\* set_frame/set_addr/set_flags: the address bits and the flag bits are replaced
set_frame(e, frame, flags) == [addr |-> frame, flags |-> flags]
\* set_frame asserts !HUGE_PAGE, set_addr asserts the address is page aligned
set_frame_panics(frame, flags) == HUGE_PAGE \in flags \/ frame % PAGE_SIZE # 0

\* page_table[index] of the table in frame `table`
entry_at(mem, table, idx) ==
  IF idx \in DOMAIN mem[table] THEN mem[table][idx] ELSE ZeroEntry

\* page_table[index] = e
write_entry(mem, table, idx, e) ==
  [mem EXCEPT ![table] =
     IF e = ZeroEntry
     THEN [i \in (DOMAIN @) \ {idx} |-> @[i]]
     ELSE [i \in (DOMAIN @) \cup {idx} |-> IF i = idx THEN e ELSE @[i]]]

\* a zero() that leaves the frame as it was
zero_table_skipped(mem, table) == mem

\* PageTable::zero
zero_table(mem, table) == [mem EXCEPT ![table] = ZeroTable]

(***************************************************************************)
(* arch/x86_64/paging/mod.rs.  A virtual address is [hi, lo]: lo its bits  *)
(* 0..29 and hi its bits 30..47 (the index functions drop bits 48..63).    *)
(***************************************************************************)
VA(p4, p3, p2, p1, off) ==
  [hi |-> p4 * ENTRY_COUNT + p3, lo |-> (p2 * ENTRY_COUNT + p1) * PAGE_SIZE + off]

\* (addr >> 12 >> 9 >> 9 >> 9) as u16 % 512, and so on
p4_index(v) == (v.hi \div ENTRY_COUNT) % ENTRY_COUNT
p3_index(v) == v.hi % ENTRY_COUNT
p2_index(v) == (v.lo \div (PAGE_SIZE * ENTRY_COUNT)) % ENTRY_COUNT
p1_index(v) == (v.lo \div PAGE_SIZE) % ENTRY_COUNT
page_index(v) == v.lo % PAGE_SIZE

\* Page::containing_addr / start_addr
page_containing(v) == [v EXCEPT !.lo = align_down(@, PAGE_SIZE)]
va_add(v, off) == [v EXCEPT !.lo = @ + off]

\* addr.rs: HHDM_OFFSET, set once at boot from the loader's response
HHDM_OFFSET == VA(256, 0, 0, 0, 0)

\* PhysAddr::as_hddm_virt: VirtAddr(self.0 + HHDM_OFFSET)
as_hddm_virt(p) ==
  [hi |-> HHDM_OFFSET.hi + ((HHDM_OFFSET.lo + p) \div (PAGE_SIZE * ENTRY_COUNT * ENTRY_COUNT)),
   lo |-> (HHDM_OFFSET.lo + p) % (PAGE_SIZE * ENTRY_COUNT * ENTRY_COUNT)]

\* the pointer BootstrapAlloc::allocate returns: addr.as_hddm_virt().as_mut_ptr()
BootstrapAlloc_allocate_ptr(ranges, size0) ==
  as_hddm_virt(BootstrapAlloc_allocate(ranges, size0).addr)

\* translate_addr: the walk from level 3 (p4) down to level 0 (p1)
RECURSIVE translate_walk(_, _, _, _)
translate_walk(mem, frame, v, level) ==
  LET index == CASE level = 3 -> p4_index(v)
                 [] level = 2 -> p3_index(v)
                 [] level = 1 -> p2_index(v)
                 [] OTHER -> p1_index(v)
  IN With(entry_at(mem, containing_addr(frame), index), LAMBDA entry :
       With(entry_frame(entry), LAMBDA f :
         IF f.ok
         THEN IF level = 0
              THEN [panic |-> FALSE, result |-> Some(f.frame + page_index(v))]
              ELSE translate_walk(mem, f.frame, v, level - 1)
         ELSE IF f.err = "FrameNotPresent" THEN [panic |-> FALSE, result |-> None]
         ELSE IF level # 1 THEN [panic |-> TRUE, result |-> None]
         ELSE [panic |-> FALSE,
               result |-> Some(entry_addr(entry) + p1_index(v) + page_index(v))]))

\* PageMap::translate_addr(addr) -> Option<PhysAddr>
translate_addr(mem, pml4, v) == translate_walk(mem, pml4, v, 3)

\* PageMap::translate_page(page) -> Result<Frame, FrameError>
RECURSIVE translate_page_walk(_, _, _, _)
translate_page_walk(mem, frame, idxs, k) ==
  IF k > Len(idxs) THEN [ok |-> TRUE, err |-> "", frame |-> frame]
  ELSE With(entry_frame(entry_at(mem, containing_addr(frame), idxs[k])), LAMBDA f :
         IF f.ok THEN translate_page_walk(mem, f.frame, idxs, k + 1) ELSE f)

translate_page(mem, pml4, page) ==
  translate_page_walk(mem, pml4,
                      <<p4_index(page), p3_index(page), p2_index(page), p1_index(page)>>, 1)

\* the flags map_page gives a new intermediate table's entry
TableFlags == {PRESENT, WRITEABLE, USER_ACCESSIBLE}

\* the table a fresh entry leads to.  The entry is a &mut into the parent
\* table and zero() writes through a second pointer: when the new table
\* frame is the parent table itself the entry is wiped, and the walk goes
\* on from the address read back (reread) or from the one held in a register.
next_table(mem, table, idx, table_frame, reread) ==
  IF reread THEN entry_addr(entry_at(mem, table, idx)) ELSE table_frame

\* map_page's loop over <<p4, p3, p2>>: [mem, a, table, taken, panic, failed]
RECURSIVE map_walk(_, _, _, _, _, _, _)
map_walk(mem, a, table, idxs, k, taken, reread) ==
  IF k > Len(idxs)
  THEN [mem |-> mem, a |-> a, table |-> table, taken |-> taken,
        panic |-> FALSE, failed |-> FALSE]
  ELSE With(entry_at(mem, table, idxs[k]), LAMBDA entry :
         IF is_unused(entry)
         THEN With(allocate_frame(a, order_from_size(PAGE_SIZE)), LAMBDA r :
                IF r.panic
                THEN [mem |-> mem, a |-> r.a, table |-> table, taken |-> taken,
                      panic |-> TRUE, failed |-> FALSE]
                ELSE IF ~r.result.is_some
                THEN [mem |-> mem, a |-> r.a, table |-> table, taken |-> taken,
                      panic |-> FALSE, failed |-> TRUE]
                ELSE LET tf == containing_addr(r.result.value)
                         mem1 == write_entry(mem, table, idxs[k],
                                             set_frame(entry, tf, TableFlags))
                     IN With(zero_table(mem1, tf), LAMBDA mem2 :
                          With(<<next_table(mem2, table, idxs[k], tf, reread),
                                 Append(taken, tf)>>, LAMBDA nx :
                            map_walk(mem2, r.a, nx[1], idxs, k + 1, nx[2], reread))))
         ELSE With(entry_addr(entry), LAMBDA next :
                map_walk(mem, a, next, idxs, k + 1, taken, reread)))

\* a map_page that expects every allocation to succeed
map_page_expecting(mem, a, pml4, page, frame, flags, reread) ==
  With(map_walk(mem, a, pml4, <<p4_index(page), p3_index(page), p2_index(page)>>,
                1, <<>>, reread), LAMBDA w :
    IF w.panic \/ w.failed
    THEN [mem |-> w.mem, a |-> w.a, taken |-> w.taken, panic |-> TRUE,
          result |-> "panic", frame |-> 0]
    ELSE [mem |-> write_entry(w.mem, w.table, p1_index(page),
                              set_frame(ZeroEntry, frame, flags)),
          a |-> w.a, taken |-> w.taken, panic |-> FALSE, result |-> "Ok", frame |-> frame])

\* PageMap::map_page(page, frame, flags) -> Result<Frame, MapError>
\* [mem, a, taken, panic, result, frame]: memory and allocator afterwards, the
\* table frames taken from the allocator, and the result with its frame
map_page(mem, a, pml4, page, frame, flags, reread) ==
  With(map_walk(mem, a, pml4, <<p4_index(page), p3_index(page), p2_index(page)>>,
                1, <<>>, reread), LAMBDA w :
    LET idx == p1_index(page)
        entry == entry_at(w.mem, w.table, idx)
        old == entry_frame(entry)
        mem2 == write_entry(w.mem, w.table, idx, set_frame(entry, frame, flags))
        new == entry_frame(entry_at(mem2, w.table, idx))
        out(m, pan, res, fr) == [mem |-> m, a |-> w.a, taken |-> w.taken,
                                 panic |-> pan, result |-> res, frame |-> fr]
    IN IF w.panic THEN out(w.mem, TRUE, "panic", 0)
       ELSE IF w.failed THEN out(w.mem, FALSE, "AllocationFailed", 0)
       ELSE IF ~is_unused(entry)
       THEN IF old.ok THEN out(w.mem, FALSE, "PageAlreadyMapped", old.frame)
            ELSE out(w.mem, TRUE, "panic", 0)
       ELSE IF set_frame_panics(frame, flags) THEN out(w.mem, TRUE, "panic", 0)
       ELSE IF new.ok THEN out(mem2, FALSE, "Ok", new.frame)
       ELSE out(mem2, TRUE, "panic", 0))

\* unmap_page's loop: the entry is followed whatever its flags
RECURSIVE unmap_walk(_, _, _, _)
unmap_walk(mem, table, idxs, k) ==
  IF k > Len(idxs) THEN table
  ELSE With(entry_addr(entry_at(mem, table, idxs[k])), LAMBDA next :
         unmap_walk(mem, next, idxs, k + 1))

\* the entries unmap_page's loop copies on its way down (p4, p3, p2); the table
\* behind each one is the next table read
RECURSIVE unmap_reads(_, _, _, _)
unmap_reads(mem, table, idxs, k) ==
  IF k > Len(idxs) THEN << >>
  ELSE With(entry_at(mem, table, idxs[k]), LAMBDA entry :
         <<entry>> \o unmap_reads(mem, entry_addr(entry), idxs, k + 1))

\* an unmap that returns the frame and leaves the leaf entry in place
unmap_page_keeping_entry(mem, pml4, page) ==
  LET table == unmap_walk(mem, pml4, <<p4_index(page), p3_index(page), p2_index(page)>>, 1)
      f == entry_frame(entry_at(mem, table, p1_index(page)))
  IN [mem |-> mem, result |-> IF f.ok THEN "Ok" ELSE "PageNotMapped",
      frame |-> f.frame, table |-> table]

\* PageMap::unmap_page(page) -> Result<Frame, UnmapError>: [mem, result, frame, table]
unmap_page(mem, pml4, page) ==
  LET table == unmap_walk(mem, pml4, <<p4_index(page), p3_index(page), p2_index(page)>>, 1)
      idx == p1_index(page)
      f == entry_frame(entry_at(mem, table, idx))
  IN IF f.ok
     THEN [mem |-> write_entry(mem, table, idx, ZeroEntry), result |-> "Ok",
           frame |-> f.frame, table |-> table]
     ELSE [mem |-> mem,
           result |-> IF f.err = "FrameNotPresent" THEN "PageNotMapped"
                      ELSE "ParentEntryHugePage",
           frame |-> 0, table |-> table]

\* a new() that leaves entries 0..255 of the frame as it finds them
AddressSpace_new_keeping_lower(mem, a, active) ==
  With(allocate_frame(a, order_from_size(PAGE_SIZE)), LAMBDA r :
    IF r.panic
    THEN [mem |-> mem, a |-> r.a, panic |-> TRUE, result |-> "panic", cr3 |-> 0]
    ELSE IF ~r.result.is_some
    THEN [mem |-> mem, a |-> r.a, panic |-> FALSE, result |-> "AllocationFailed", cr3 |-> 0]
    ELSE With(containing_addr(r.result.value), LAMBDA frame :
           [mem |-> [mem EXCEPT ![frame] =
                       [i \in {j \in DOMAIN mem[frame] : j < 256}
                                \cup {j \in DOMAIN mem[active] : j >= 256} |->
                          IF i < 256 THEN mem[frame][i] ELSE mem[active][i]]],
            a |-> r.a, panic |-> FALSE, result |-> "Ok", cr3 |-> frame]))

\* AddressSpace::new() -> Result<Self, MapError>: [mem, a, panic, result, cr3].
\* `active` is the table active_level_4_table() reads cr3 for.
AddressSpace_new(mem, a, active) ==
  With(allocate_frame(a, order_from_size(PAGE_SIZE)), LAMBDA r :
    IF r.panic
    THEN [mem |-> mem, a |-> r.a, panic |-> TRUE, result |-> "panic", cr3 |-> 0]
    ELSE IF ~r.result.is_some
    THEN [mem |-> mem, a |-> r.a, panic |-> FALSE, result |-> "AllocationFailed", cr3 |-> 0]
    ELSE With(containing_addr(r.result.value), LAMBDA frame :
           With([mem EXCEPT ![frame] = [i \in {j \in DOMAIN @ : j >= 256} |-> @[i]]],
                LAMBDA lower :
             [mem |-> [lower EXCEPT ![frame] =
                         [i \in {j \in DOMAIN lower[active] : j >= 256} |-> lower[active][i]]],
              a |-> r.a, panic |-> FALSE, result |-> "Ok", cr3 |-> frame])))

(***************************************************************************)
(* memory/alloc.rs: init_heap.  The heap is HeapPages pages long here (the *)
(* kernel's HEAP_SIZE is 8 MiB); the aliasing choice `reread` of map_page  *)
(* is the build's, the same for every call.                                *)
(***************************************************************************)
HeapPages == 2

\* 0xFFFF_FE80_0000_0000
HEAP_START == VA(509, 0, 0, 0, 0)
HEAP_SIZE == HeapPages * PAGE_SIZE

\* what init_heap has done so far: the frames taken from FRAME_ALLOCATOR (by
\* init_heap and by map_page), the frame of each page, the map_page calls made
heap_out(mem, a, acc, panic, result) ==
  [mem |-> mem, a |-> a, taken |-> acc.taken, frames |-> acc.frames, calls |-> acc.calls,
   panic |-> panic, result |-> result]

\* init_heap's loop: while page != heap_end_page { allocate_frame, map_page, next page }
RECURSIVE heap_loop(_, _, _, _, _, _, _)
heap_loop(mem, a, root, page, heap_end_page, acc, reread) ==
  IF page = heap_end_page THEN heap_out(mem, a, acc, FALSE, "Ok")
  ELSE With(allocate_frame(a, order_from_size(PAGE_SIZE)), LAMBDA f :
         IF f.panic THEN heap_out(mem, f.a, acc, TRUE, "panic")
         ELSE IF ~f.result.is_some THEN heap_out(mem, f.a, acc, FALSE, "AllocationFailed")
         ELSE With(containing_addr(f.result.value), LAMBDA frame :
                With(map_page(mem, f.a, root, page, frame, {PRESENT, WRITEABLE}, reread),
                     LAMBDA m :
                  With([taken |-> Append(acc.taken, frame) \o m.taken,
                        frames |-> Append(acc.frames, frame),
                        calls |-> acc.calls + 1], LAMBDA acc2 :
                    IF m.panic THEN heap_out(m.mem, m.a, acc2, TRUE, "panic")
                    ELSE IF m.result # "Ok" THEN heap_out(m.mem, m.a, acc2, FALSE, m.result)
                    ELSE heap_loop(m.mem, m.a, root,
                                   page_containing(va_add(page, PAGE_SIZE)),
                                   heap_end_page, acc2, reread)))))

\* an init_heap that initialises GLOBAL_ALLOC whatever the loop returned
init_heap_eager(mem, a, root, reread) ==
  With(heap_loop(mem, a, root, page_containing(HEAP_START),
                 page_containing(va_add(HEAP_START, HEAP_SIZE)),
                 [taken |-> <<>>, frames |-> <<>>, calls |-> 0], reread), LAMBDA r :
    [mem |-> r.mem, a |-> r.a, taken |-> r.taken, frames |-> r.frames, calls |-> r.calls,
     panic |-> r.panic, result |-> r.result, inits |-> IF r.panic THEN 0 ELSE 1])

\* init_heap(mapper) -> Result<(), MapError>; inits counts GLOBAL_ALLOC.lock().init(..)
init_heap(mem, a, root, reread) ==
  With(heap_loop(mem, a, root, page_containing(HEAP_START),
                 page_containing(va_add(HEAP_START, HEAP_SIZE)),
                 [taken |-> <<>>, frames |-> <<>>, calls |-> 0], reread), LAMBDA r :
    [mem |-> r.mem, a |-> r.a, taken |-> r.taken, frames |-> r.frames, calls |-> r.calls,
     panic |-> r.panic, result |-> r.result,
     inits |-> IF r.result = "Ok" /\ ~r.panic THEN 1 ELSE 0])

(***************************************************************************)
(* State.                                                                  *)
(***************************************************************************)
VARIABLES
  boot_map,       \* the memory map as the boot loader handed it over
  mem_map,        \* MEM_MAP_REQUEST's response: the map the kernel holds (new() edits it)
  status,         \* "boot" before FRAME_ALLOCATOR.init, then "ready"; "panic" once the kernel panicked
  allocator,      \* FRAME_ALLOCATOR: the BuddyFrameAllocator behind the lock
  memory_ranges,  \* BootstrapAlloc::memory_ranges, the region array
  carved,         \* the ranges carved out for the region array and the bitmaps
  live,           \* bag of <<addr, order>>: blocks handed out and not yet returned
  last,           \* the last call made and what it returned
  half,           \* history: the order-0 blocks a deallocated while their buddy stayed
                  \* allocated, for as long as the buddy is held and a is not handed out again
  phys,           \* physical memory read through the HHDM: frame address -> the table it holds
  pml4,           \* PageMap::pml4 of the active map (cr3)
  plast,          \* the last page-map call, what it returned and what held before it
  spaces,         \* AddressSpace::cr3 of the address spaces created, in creation order
  region_iter,    \* the MemoryRegionIter being driven: [iter, cursor_base, cursor_end]
  heap,           \* init_heap: calls made, GLOBAL_ALLOC initialisations, the last call's outcome
  machine,        \* what the boot loader and CPUID report: HHDM response, SMP cpus, APIC type
  bsp,            \* the bootstrap processor: [pc, cpu, panicked] in x86_64_molecule_main
  aps,            \* the application processors: lapic id -> [pc, panicked] in ap_main
  hhdm_offset,    \* the Once cell HHDM_OFFSET
  BSP_READY,      \* apic.rs BSP_READY
  LOCAL_APIC,     \* the Once cell LOCAL_APIC, holding the LocalApic's apic_type
  CPU_COUNT,      \* apic.rs CPU_COUNT
  events,         \* history: the HHDM conversions, init_heap entries and init_ap calls made
  lock,           \* the Mutex of FRAME_ALLOCATOR: 0 or the unit that holds the guard
  units,          \* the execution units calling alloc/dealloc: where each is in its call
  shadow          \* history: the allocator as the calls made so far give it when each
                  \* runs alone, in the order the lock was taken

pagingVars == <<phys, pml4, plast, spaces>>

startupVars == <<machine, bsp, aps, hhdm_offset, BSP_READY, LOCAL_APIC, CPU_COUNT, events>>

lockVars == <<lock, units, shadow>>

\* what only the boot sequence, init_heap and the concurrent callers change
idleVars == <<heap, startupVars, lockVars>>

vars == <<boot_map, mem_map, status, allocator, memory_ranges, carved, live, last, half,
          phys, pml4, plast, spaces, region_iter, heap, machine, bsp, aps, hhdm_offset,
          BSP_READY, LOCAL_APIC, CPU_COUNT, events, lock, units, shadow>>

\* init_heap has not been called
NoHeap ==
  [calls |-> 0, ok_calls |-> 0, inits |-> 0, result |-> "", frames |-> <<>>, map_calls |-> 0]

\* no processor is being followed through its boot code
NoCpu == [pc |-> 0, cpu |-> 0, panicked |-> FALSE]
NoEvents == [conversions |-> {}, heap_entries |-> {}, ap_inits |-> {}]

StartupIdle ==
  /\ machine = [hhdm |-> None, cpus |-> <<>>, apic_type |-> "None"]
  /\ bsp = NoCpu
  /\ aps = << >>
  /\ hhdm_offset = None
  /\ BSP_READY = FALSE
  /\ LOCAL_APIC = None
  /\ CPU_COUNT = 0
  /\ events = NoEvents

\* no unit is calling into FRAME_ALLOCATOR
LockIdle ==
  /\ lock = 0
  /\ units = << >>
  /\ shadow = UninitAllocator

\* no MemoryRegionIter has been built
NoIter == [iter |-> 1, cursor_base |-> 0, cursor_end |-> 0]

Call(op, order, arg, result) == [op |-> op, order |-> order, arg |-> arg, result |-> result]

(***************************************************************************)
(* The firmware memory maps the model boots with.  As the boot protocol    *)
(* gives them: entries sorted by base, disjoint, USABLE entries page       *)
(* aligned in base and length; non-USABLE entries may stand anywhere.      *)
(***************************************************************************)
Pg(n) == n * PAGE_SIZE

\* USABLE, one reserved page, USABLE (the shape of the end-to-end scenario)
MapUsableFirst(b, l1, l2) ==
  << Entry(Pg(b), Pg(l1), USABLE),
     Entry(Pg(b + l1), Pg(1), RESERVED),
     Entry(Pg(b + l1 + 1), Pg(l2), USABLE) >>

\* a reserved entry first, then two adjacent USABLE entries
MapReservedFirst(b, l1, l2) ==
  << Entry(Pg(b), Pg(2), RESERVED),
     Entry(Pg(b + 2), Pg(l1), USABLE),
     Entry(Pg(b + 2 + l1), Pg(l2), USABLE) >>

\* two adjacent USABLE entries from address 0
MapAdjacent(l1, l2) ==
  << Entry(0, Pg(l1), USABLE),
     Entry(Pg(l1), Pg(l2), USABLE) >>

Len1 == 7..MaxLen1
Len2 == 1..MaxLen2
BasePages == 0..MaxBasePage

MemMaps ==
  {MapUsableFirst(b, l1, l2) : b \in BasePages, l1 \in Len1, l2 \in Len2}
  \cup {MapReservedFirst(b, l1, l2) : b \in BasePages, l1 \in Len1, l2 \in Len2}
  \cup {MapAdjacent(l1, l2) : l1 \in Len1, l2 \in Len2}

\* what is kept of a page-map call: the operation, its result, whether the
\* page was mapped before and is mapped after it, whether the result names the
\* frame it was mapped to, and whether the frame passed in is another one
PageCall(op, result, was, now, ret, frame) ==
  [op |-> op, result |-> result, was_ok |-> was.ok, now_ok |-> now.ok,
   ret_was |-> was.ok /\ ret = was.frame, other |-> was.ok /\ frame # was.frame,
   kept |-> now = was]

NoPageCall == PageCall("none", "", entry_frame(ZeroEntry), entry_frame(ZeroEntry), 0, 0)

Init ==
  /\ boot_map \in MemMaps
  /\ mem_map = boot_map
  /\ status = "boot"
  /\ allocator = UninitAllocator
  /\ memory_ranges = <<>>
  /\ carved = <<>>
  /\ live = EmptyBag
  /\ last = Call("none", 0, 0, None)
  /\ half = {}
  /\ phys = << >>
  /\ pml4 = 0
  /\ plast = NoPageCall
  /\ spaces = << >>
  /\ region_iter = NoIter
  /\ heap = NoHeap
  /\ StartupIdle
  /\ LockIdle

(***************************************************************************)
(* Operations.                                                             *)
(***************************************************************************)
\* the byte ranges [a1, a1 + s1) and [a2, a2 + s2) share a byte
Overlap(a1, s1, a2, s2) == a1 < a2 + s2 /\ a2 < a1 + s1

\* history only: a freed half leaves `half` when a block covering it is handed out
HalfAfterAlloc(result, order) ==
  IF ~result.is_some THEN half
  ELSE {a \in half : ~Overlap(result.value, BUDDY_SIZE[order], a, PAGE_SIZE)}

\* history only: freeing addr while its buddy is held makes addr a freed half;
\* freeing the held buddy of a freed half ends the pair
HalfAfterDealloc(addr, order, held) ==
  IF order # 0 THEN half
  ELSE IF BagIn(<<get_buddy(addr, 0), 0>>, held)
       THEN (half \ {get_buddy(addr, 0)}) \cup {addr}
       ELSE half \ {get_buddy(addr, 0)}

\* LockedFrameAllocator::init (paging::init): *allocator = BuddyFrameAllocator::new(mem_map)
FrameAllocatorInit ==
  /\ status = "boot"
  /\ \E n \in {BuddyFrameAllocator_new(mem_map)} :
        /\ allocator' = n.a
        /\ mem_map' = n.mem_map
        /\ memory_ranges' = n.ranges
        /\ carved' = n.carved
        /\ status' = IF n.panic THEN "panic" ELSE "ready"
  /\ last' = Call("init", 0, 0, None)
  /\ UNCHANGED <<idleVars, region_iter, boot_map, live, half, pagingVars>>

\* LockedFrameAllocator::alloc: lock, allocate_frame(order)
Alloc(order) ==
  /\ status = "ready"
  /\ BagCardinality(live) < MaxLive
  /\ \E r \in {allocate_frame(allocator, order)} :
        /\ allocator' = r.a
        /\ status' = IF r.panic THEN "panic" ELSE "ready"
        /\ live' = IF r.result.is_some /\ ~r.panic
                   THEN live (+) SetToBag({<<r.result.value, order>>})
                   ELSE live
        /\ last' = Call("alloc", order, 0, r.result)
        /\ half' = HalfAfterAlloc(r.result, order)
  /\ UNCHANGED <<idleVars, region_iter, boot_map, mem_map, memory_ranges, carved, pagingVars>>

\* LockedFrameAllocator::dealloc of a block the caller holds: lock, deallocate_frame(addr, order)
Dealloc(addr, order) ==
  /\ status = "ready"
  /\ BagIn(<<addr, order>>, live)
  /\ \E r \in {deallocate_frame(allocator, addr, order)} :
        /\ allocator' = r.a
        /\ status' = IF r.panic THEN "panic" ELSE "ready"
  /\ live' = live (-) SetToBag({<<addr, order>>})
  /\ last' = Call("dealloc", order, addr, None)
  /\ half' = HalfAfterDealloc(addr, order, live (-) SetToBag({<<addr, order>>}))
  /\ UNCHANGED <<idleVars, region_iter, boot_map, mem_map, memory_ranges, carved, pagingVars>>

\* <LockedFrameAllocator as FrameAllocator>::allocate_frame: alloc(PageSize4K::SIZE),
\* whatever the number of frames already handed out
AllocateFrame4K ==
  /\ status = "ready"
  /\ \E order \in {order_from_size(PAGE_SIZE)} :
      \E r \in {allocate_frame(allocator, order)} :
        /\ allocator' = r.a
        /\ status' = IF r.panic THEN "panic" ELSE "ready"
        /\ live' = IF r.result.is_some /\ ~r.panic
                   THEN live (+) SetToBag({<<align_down(r.result.value, PAGE_SIZE), order>>})
                   ELSE live
        /\ last' = Call("alloc", order, 0, r.result)
        /\ half' = HalfAfterAlloc(r.result, order)
  /\ UNCHANGED <<idleVars, region_iter, boot_map, mem_map, memory_ranges, carved, pagingVars>>

AllocStep == \E order \in Orders : Alloc(order)
DeallocStep == \E blk \in BagToSet(live) : Dealloc(blk[1], blk[2])

Next ==
  \/ FrameAllocatorInit
  \/ AllocStep
  \/ DeallocStep

Spec == Init /\ [][Next]_vars

\* a freshly constructed allocator drained by allocate_frame() calls alone
NextExhaust ==
  \/ FrameAllocatorInit
  \/ AllocateFrame4K

SpecExhaust == Init /\ [][NextExhaust]_vars

(***************************************************************************)
(* The page map.  The machine boots with the loader's tables in a reserved *)
(* range: the HHDM slot (p4 = 256) holds one 4 KiB mapping, one 2 MiB      *)
(* mapping and room for more; the heap slot (p4 = 509, HEAP_START) is      *)
(* empty.  What the other frames hold is not known to the kernel.          *)
(***************************************************************************)
PagingBootMap ==
  << Entry(0, Pg(8), USABLE),
     Entry(Pg(8), Pg(4), RESERVED),
     Entry(Pg(12), Pg(1), USABLE) >>

BootPml4 == Pg(8)
BootP3 == Pg(9)
BootP2 == Pg(10)
BootP1 == Pg(11)
BootFrame == Pg(13)
HugeFrame == Pg(ENTRY_COUNT)

PhysFrames == {Pg(n) : n \in 0..15} \cup {HugeFrame}

\* what a frame that holds no table may read as
JunkTables == {ZeroTable, [i \in {0} |-> [addr |-> BootFrame, flags |-> {PRESENT}]]}

BootMemory(junk) ==
  [f \in PhysFrames |->
     CASE f = BootPml4 -> [i \in {256} |-> [addr |-> BootP3, flags |-> TableFlags]]
       [] f = BootP3 -> [i \in {0} |-> [addr |-> BootP2, flags |-> TableFlags]]
       [] f = BootP2 -> [i \in {0, 1} |->
                           IF i = 0 THEN [addr |-> BootP1, flags |-> TableFlags]
                           ELSE [addr |-> HugeFrame, flags |-> {PRESENT, WRITEABLE, HUGE_PAGE}]]
       [] f = BootP1 -> [i \in {0} |-> [addr |-> BootFrame, flags |-> {PRESENT, WRITEABLE}]]
       [] OTHER -> junk]

\* the pages the model maps and unmaps
VPages ==
  { VA(256, 0, 0, 0, 0), VA(256, 0, 1, 0, 0), VA(256, 0, 2, 0, 0), VA(509, 0, 0, 0, 0) }

DataFrames == {Pg(14)}
FlagChoices == {{PRESENT, WRITEABLE}, {WRITEABLE}, {PRESENT, HUGE_PAGE}}
Offsets == {0, 1, PAGE_SIZE - 1}

InitPaging ==
  /\ boot_map = PagingBootMap
  /\ mem_map = boot_map
  /\ status = "boot"
  /\ allocator = UninitAllocator
  /\ memory_ranges = <<>>
  /\ carved = <<>>
  /\ live = EmptyBag
  /\ last = Call("none", 0, 0, None)
  /\ half = {}
  /\ \E junk \in JunkTables : phys = BootMemory(junk)
  /\ pml4 = BootPml4
  /\ plast = NoPageCall
  /\ spaces = << >>
  /\ region_iter = NoIter
  /\ heap = NoHeap
  /\ StartupIdle
  /\ LockIdle

RECURSIVE SeqToBag(_, _)
SeqToBag(q, k) == IF k = 0 THEN EmptyBag ELSE SeqToBag(q, k - 1) (+) SetToBag({<<q[k], 0>>})

\* PageMap::map_page with the frame allocations it makes
MapPage(page, frame, flags, reread) ==
  /\ status = "ready"
  /\ \E r \in {map_page(phys, allocator, pml4, page, frame, flags, reread)} :
        /\ phys' = r.mem
        /\ allocator' = r.a
        /\ live' = live (+) SeqToBag(r.taken, Len(r.taken))
        /\ status' = IF r.panic THEN "panic" ELSE "ready"
        /\ plast' = PageCall("map_page", r.result, translate_page(phys, pml4, page),
                              translate_page(r.mem, pml4, page), r.frame, frame)
  /\ UNCHANGED <<idleVars, region_iter, boot_map, mem_map, memory_ranges, carved, last, half, pml4, spaces>>

\* PageMap::unmap_page
UnmapPage(page) ==
  /\ status = "ready"
  /\ \E r \in {unmap_page(phys, pml4, page)} :
        /\ phys' = r.mem
        /\ plast' = PageCall("unmap_page", r.result, translate_page(phys, pml4, page),
                              translate_page(r.mem, pml4, page), r.frame, r.frame)
  /\ UNCHANGED <<idleVars, region_iter, boot_map, mem_map, status, allocator, memory_ranges, carved, live, last,
                 half, pml4, spaces>>

MapStep ==
  \E page \in VPages, frame \in DataFrames, flags \in FlagChoices, reread \in BOOLEAN :
    MapPage(page, frame, flags, reread)
UnmapStep == \E page \in VPages : UnmapPage(page)

NextPaging ==
  \/ FrameAllocatorInit
  \/ MapStep
  \/ UnmapStep

SpecPaging == InitPaging /\ [][NextPaging]_vars

(***************************************************************************)
(* Address spaces.  The machine boots as above, with more single usable    *)
(* pages in the memory map; address spaces are created and kernel-half     *)
(* pages are mapped and unmapped through their page maps.                  *)
(***************************************************************************)
SpacesBootMap ==
  << Entry(0, Pg(8), USABLE),
     Entry(Pg(8), Pg(4), RESERVED),
     Entry(Pg(12), Pg(1), USABLE),
     Entry(Pg(13), Pg(3), RESERVED),
     Entry(Pg(16), Pg(1), USABLE),
     Entry(Pg(17), Pg(1), RESERVED),
     Entry(Pg(18), Pg(1), USABLE),
     Entry(Pg(19), Pg(1), RESERVED),
     Entry(Pg(20), Pg(1), USABLE) >>

SpacesFrames == PhysFrames \cup {Pg(n) : n \in 16..20}

SpacesMemory(junk) ==
  [f \in SpacesFrames |-> IF f \in PhysFrames THEN BootMemory(junk)[f] ELSE junk]

\* kernel-half pages: one in the HHDM slot the boot tables fill, one at HEAP_START
SpacePages == { VA(256, 0, 2, 0, 0), VA(509, 0, 0, 0, 0) }
SpaceFlags == {{PRESENT, WRITEABLE}}

InitSpaces ==
  /\ boot_map = SpacesBootMap
  /\ mem_map = boot_map
  /\ status = "boot"
  /\ allocator = UninitAllocator
  /\ memory_ranges = <<>>
  /\ carved = <<>>
  /\ live = EmptyBag
  /\ last = Call("none", 0, 0, None)
  /\ half = {}
  /\ \E junk \in JunkTables : phys = SpacesMemory(junk)
  /\ pml4 = BootPml4
  /\ plast = NoPageCall
  /\ spaces = << >>
  /\ region_iter = NoIter
  /\ heap = NoHeap
  /\ StartupIdle
  /\ LockIdle

\* AddressSpace::new()
AddressSpaceNew ==
  /\ status = "ready"
  /\ \E r \in {AddressSpace_new(phys, allocator, pml4)} :
        /\ phys' = r.mem
        /\ allocator' = r.a
        /\ status' = IF r.panic THEN "panic" ELSE "ready"
        /\ live' = IF r.result = "Ok" THEN live (+) SetToBag({<<r.cr3, 0>>}) ELSE live
        /\ spaces' = IF r.result = "Ok" THEN Append(spaces, r.cr3) ELSE spaces
        /\ plast' = PageCall("AddressSpace_new", r.result, entry_frame(ZeroEntry),
                              entry_frame(ZeroEntry), r.cr3, r.cr3)
  /\ UNCHANGED <<idleVars, region_iter, boot_map, mem_map, memory_ranges, carved, last, half, pml4>>

\* address_space.page_map().map_page(..)
SpaceMapPage(k, page, frame, flags, reread) ==
  /\ status = "ready"
  /\ \E r \in {map_page(phys, allocator, spaces[k], page, frame, flags, reread)} :
        /\ phys' = r.mem
        /\ allocator' = r.a
        /\ live' = live (+) SeqToBag(r.taken, Len(r.taken))
        /\ status' = IF r.panic THEN "panic" ELSE "ready"
        /\ plast' = PageCall("map_page", r.result, translate_page(phys, spaces[k], page),
                              translate_page(r.mem, spaces[k], page), r.frame, frame)
  /\ UNCHANGED <<idleVars, region_iter, boot_map, mem_map, memory_ranges, carved, last, half, pml4, spaces>>

\* address_space.page_map().unmap_page(..)
SpaceUnmapPage(k, page) ==
  /\ status = "ready"
  /\ \E r \in {unmap_page(phys, spaces[k], page)} :
        /\ phys' = r.mem
        /\ plast' = PageCall("unmap_page", r.result, translate_page(phys, spaces[k], page),
                              translate_page(r.mem, spaces[k], page), r.frame, r.frame)
  /\ UNCHANGED <<idleVars, region_iter, boot_map, mem_map, status, allocator, memory_ranges, carved, live, last,
                 half, pml4, spaces>>

SpaceMapStep ==
  \E k \in 1..Len(spaces), page \in SpacePages, frame \in DataFrames, flags \in SpaceFlags,
     reread \in BOOLEAN :
    SpaceMapPage(k, page, frame, flags, reread)
SpaceUnmapStep == \E k \in 1..Len(spaces), page \in SpacePages : SpaceUnmapPage(k, page)

NextSpaces ==
  \/ FrameAllocatorInit
  \/ AddressSpaceNew
  \/ SpaceMapStep
  \/ SpaceUnmapStep

SpecSpaces == InitSpaces /\ [][NextSpaces]_vars

(***************************************************************************)
(* Address spaces with user-half mappings.  The memory map holds single    *)
(* usable pages and no larger block, so that the allocator hands out       *)
(* every frame once and then runs out; user-half and kernel-half pages are *)
(* mapped and unmapped through the page maps of at most MaxSpaces address  *)
(* spaces.                                                                 *)
(***************************************************************************)
MaxSpaces == 2

\* the single usable pages of the memory map: pages 16, 18, .. 16 + 2 * (UserSingles - 1)
UserSingles == 6

UserBootMap ==
  << Entry(0, Pg(7), USABLE),
     Entry(Pg(7), Pg(5), RESERVED),
     Entry(Pg(12), Pg(1), USABLE),
     Entry(Pg(13), Pg(3), RESERVED) >>
  \o [n \in 1..(2 * UserSingles) |->
        IF n % 2 = 1 THEN Entry(Pg(15 + n), Pg(1), USABLE)
        ELSE Entry(Pg(15 + n), Pg(1), RESERVED)]

UserFrames == PhysFrames \cup {Pg(n) : n \in 16..(16 + 2 * UserSingles)}

UserMemory(junk) ==
  [f \in UserFrames |-> IF f \in PhysFrames THEN BootMemory(junk)[f] ELSE junk]

\* two user-half pages that share their tables, and a kernel-half page
UserPages == { VA(0, 0, 0, 0, 0), VA(0, 0, 0, 1, 0), VA(256, 0, 2, 0, 0) }

InitUser ==
  /\ boot_map = UserBootMap
  /\ mem_map = boot_map
  /\ status = "boot"
  /\ allocator = UninitAllocator
  /\ memory_ranges = <<>>
  /\ carved = <<>>
  /\ live = EmptyBag
  /\ last = Call("none", 0, 0, None)
  /\ half = {}
  /\ \E junk \in JunkTables : phys = UserMemory(junk)
  /\ pml4 = BootPml4
  /\ plast = NoPageCall
  /\ spaces = << >>
  /\ region_iter = NoIter
  /\ heap = NoHeap
  /\ StartupIdle
  /\ LockIdle

UserSpaceNew == Len(spaces) < MaxSpaces /\ AddressSpaceNew

UserMapStep ==
  \E k \in 1..Len(spaces), page \in UserPages, reread \in BOOLEAN :
    SpaceMapPage(k, page, Pg(14), {PRESENT, WRITEABLE}, reread)

UserUnmapStep == \E k \in 1..Len(spaces), page \in UserPages : SpaceUnmapPage(k, page)

NextUser ==
  \/ FrameAllocatorInit
  \/ UserSpaceNew
  \/ UserMapStep
  \/ UserUnmapStep

SpecUser == InitUser /\ [][NextUser]_vars

(***************************************************************************)
(* The normalizer and the bootstrap allocator on their own: a memory map   *)
(* of any shape is run through MemoryRegionIter the way new() does (the    *)
(* first entry as the cursor, `for region in region_iter`), and then       *)
(* BootstrapAlloc::allocate carves from the collected regions.             *)
(***************************************************************************)
\* the longest memory map
MaxEntries == 3
\* the most allocate calls made on one region list
MaxCarves == 2

\* an entry as an offset from the start of its slot: aligned and unaligned
\* bases; empty, shorter than a page, one page, two pages
EntryShapes ==
  {Entry(off, len, USABLE) : off \in {0, 100}, len \in {0, 100, Pg(1), Pg(2)}}
  \cup {Entry(0, Pg(1), RESERVED)}

\* entry k of a map lies in the k-th run of four pages: entries sorted and disjoint
Slot(k, e) == [e EXCEPT !.base = Pg(4 * (k - 1)) + @]

NormMaps ==
  UNION {{[k \in 1..n |-> Slot(k, f[k])] : f \in [1..n -> EntryShapes]} : n \in 1..MaxEntries}

AllocSizes == {1, PAGE_SIZE, PAGE_SIZE + 1}

InitBoot ==
  /\ boot_map \in NormMaps
  /\ mem_map = boot_map
  /\ status = "boot"
  /\ allocator = UninitAllocator
  /\ memory_ranges = <<>>
  /\ carved = <<>>
  /\ live = EmptyBag
  /\ last = Call("none", 0, 0, None)
  /\ half = {}
  /\ phys = << >>
  /\ pml4 = 0
  /\ plast = NoPageCall
  /\ spaces = << >>
  /\ region_iter = initial_cursor(boot_map)
  /\ heap = NoHeap
  /\ StartupIdle
  /\ LockIdle

\* one turn of `for region in region_iter { regions[i] = region; i += 1; }`;
\* last.arg is the entry the iterator took the region from
NextRegion ==
  /\ status = "boot"
  /\ \E n \in {MemoryRegionIter_next(mem_map, region_iter)} :
        /\ region_iter' = n.it
        /\ memory_ranges' = IF n.item.is_some THEN Append(memory_ranges, n.item.value)
                            ELSE memory_ranges
        /\ status' = IF n.panic THEN "panic" ELSE IF n.item.is_some THEN "boot" ELSE "ready"
        /\ last' = Call("next", 0, IF n.panic THEN next_usable(mem_map, region_iter.iter)
                                   ELSE n.it.iter - 1, n.item)
  /\ UNCHANGED <<idleVars, boot_map, mem_map, allocator, carved, live, half, pagingVars>>

\* BootstrapAlloc::allocate(size) on the collected regions
BootstrapAllocate(size) ==
  /\ status = "ready"
  /\ Len(carved) < MaxCarves
  /\ \E r \in {BootstrapAlloc_allocate(memory_ranges, size)} :
        /\ memory_ranges' = r.ranges
        /\ carved' = IF r.panic THEN carved ELSE Append(carved, [base |-> r.addr, size |-> r.size])
        /\ status' = IF r.panic THEN "panic" ELSE "ready"
        /\ last' = Call("allocate", 0, size, IF r.panic THEN None ELSE Some(r.addr))
  /\ UNCHANGED <<idleVars, region_iter, boot_map, mem_map, allocator, live, half, pagingVars>>

BootstrapAllocateStep == \E size \in AllocSizes : BootstrapAllocate(size)

NextBoot ==
  \/ NextRegion
  \/ BootstrapAllocateStep

SpecBoot == InitBoot /\ [][NextBoot]_vars

(***************************************************************************)
(* init_heap on the booted machine: the allocator is constructed, pages    *)
(* of the heap are mapped and unmapped by other callers, and init_heap is  *)
(* called at most MaxHeapCalls times.                                      *)
(***************************************************************************)
MaxHeapCalls == 2

\* the history of init_heap calls after one more that returned r
HeapAfter(r) ==
  [calls |-> heap.calls + 1,
   ok_calls |-> heap.ok_calls + (IF r.result = "Ok" THEN 1 ELSE 0),
   inits |-> heap.inits + r.inits,
   result |-> r.result, frames |-> r.frames, map_calls |-> r.calls]

InitHeapEnv ==
  /\ boot_map \in {PagingBootMap, SpacesBootMap}
  /\ mem_map = boot_map
  /\ status = "boot"
  /\ allocator = UninitAllocator
  /\ memory_ranges = <<>>
  /\ carved = <<>>
  /\ live = EmptyBag
  /\ last = Call("none", 0, 0, None)
  /\ half = {}
  /\ \E junk \in JunkTables :
       phys = IF boot_map = PagingBootMap THEN BootMemory(junk) ELSE SpacesMemory(junk)
  /\ pml4 = BootPml4
  /\ plast = NoPageCall
  /\ spaces = << >>
  /\ region_iter = NoIter
  /\ heap = NoHeap
  /\ StartupIdle
  /\ LockIdle

\* init_heap(mapper) on the active page map
InitHeap(reread) ==
  /\ status = "ready"
  /\ heap.calls < MaxHeapCalls
  /\ \E r \in {init_heap(phys, allocator, pml4, reread)} :
       /\ phys' = r.mem
       /\ allocator' = r.a
       /\ live' = live (+) SeqToBag(r.taken, Len(r.taken))
       /\ heap' = HeapAfter(r)
       /\ status' = IF r.panic THEN "panic" ELSE "ready"
       /\ plast' = PageCall("init_heap", r.result, entry_frame(ZeroEntry),
                             entry_frame(ZeroEntry), 0, 0)
  /\ UNCHANGED <<startupVars, lockVars, region_iter, boot_map, mem_map, memory_ranges, carved,
                 last, half, pml4, spaces>>

InitHeapStep == \E reread \in BOOLEAN : InitHeap(reread)

\* the pages mapped and unmapped around the calls: the first and the last of the heap
HeapProbes == {page_containing(HEAP_START),
               page_containing(va_add(HEAP_START, HEAP_SIZE - PAGE_SIZE))}

HeapMapStep ==
  \E page \in HeapProbes, frame \in DataFrames, reread \in BOOLEAN :
    MapPage(page, frame, {PRESENT, WRITEABLE}, reread)
HeapUnmapStep == \E page \in HeapProbes : UnmapPage(page)

NextHeap ==
  \/ FrameAllocatorInit
  \/ HeapMapStep
  \/ HeapUnmapStep
  \/ InitHeapStep

SpecHeap == InitHeapEnv /\ [][NextHeap]_vars

(***************************************************************************)
(* The allocator on machines whose memory map starts with a reserved entry *)
(* longer than the allocator's own metadata.                               *)
(***************************************************************************)
MapLongReservedFirst(l0, l1) ==
  << Entry(0, Pg(l0), RESERVED),
     Entry(Pg(l0), Pg(l1), USABLE) >>

ReservedMaps == {MapLongReservedFirst(l0, l1) : l0 \in {6, 8}, l1 \in Len1}

InitReserved ==
  /\ boot_map \in ReservedMaps
  /\ mem_map = boot_map
  /\ status = "boot"
  /\ allocator = UninitAllocator
  /\ memory_ranges = <<>>
  /\ carved = <<>>
  /\ live = EmptyBag
  /\ last = Call("none", 0, 0, None)
  /\ half = {}
  /\ phys = << >>
  /\ pml4 = 0
  /\ plast = NoPageCall
  /\ spaces = << >>
  /\ region_iter = NoIter
  /\ heap = NoHeap
  /\ StartupIdle
  /\ LockIdle

SpecReserved == InitReserved /\ [][Next]_vars

(***************************************************************************)
(* The allocator on memory maps whose entries are in ascending order of    *)
(* base address and on maps whose USABLE entries are not.                  *)
(***************************************************************************)
\* two USABLE entries, the higher one first
MapDescending(l1, l2) ==
  << Entry(Pg(l2), Pg(l1), USABLE),
     Entry(0, Pg(l2), USABLE) >>

\* three USABLE entries, the middle one first
MapMiddleFirst(l1, l2) ==
  << Entry(Pg(4), Pg(2), USABLE),
     Entry(0, Pg(3), USABLE),
     Entry(Pg(l1), Pg(l2), USABLE) >>

OrderMaps ==
  {MapUsableFirst(1, 7, 4), MapReservedFirst(1, 7, 2), MapAdjacent(7, 3)}
  \cup {MapDescending(l1, l2) : l1 \in Len2, l2 \in Len1}
  \cup {MapMiddleFirst(8, l2) : l2 \in Len2}

InitOrder ==
  /\ boot_map \in OrderMaps
  /\ mem_map = boot_map
  /\ status = "boot"
  /\ allocator = UninitAllocator
  /\ memory_ranges = <<>>
  /\ carved = <<>>
  /\ live = EmptyBag
  /\ last = Call("none", 0, 0, None)
  /\ half = {}
  /\ phys = << >>
  /\ pml4 = 0
  /\ plast = NoPageCall
  /\ spaces = << >>
  /\ region_iter = NoIter
  /\ heap = NoHeap
  /\ StartupIdle
  /\ LockIdle

SpecOrder == InitOrder /\ [][Next]_vars

(***************************************************************************)
(* Concurrent callers of FRAME_ALLOCATOR (frame.rs 86-132).  Each unit     *)
(* calls alloc or dealloc: it takes the Mutex, runs allocate_frame or      *)
(* deallocate_frame in the steps the code makes (the scan with find_free,  *)
(* the split loop, one turn of the merge loop), and drops the guard.       *)
(***************************************************************************)
NumUnits == 2

Units == 1..NumUnits

\* the size classes the units ask for
LockOrders == {0, 1, 2}

\* the memory maps the machine boots with here
LockMaps == {MapUsableFirst(0, 7, 4), MapAdjacent(8, 4)}

IdleUnit ==
  [pc |-> "idle", op |-> "none", order |-> 0, addr |-> 0, i |-> 0, result |-> None,
   seq_result |-> None]

\* a lock that is handed to whoever asks
Mutex_lock_unchecked(l, u) == [acquired |-> TRUE, lock |-> u]

\* spin::Mutex::lock as alloc, dealloc and init call it: the guard is handed
\* out when no other guard is alive
Mutex_lock(l, u) == [acquired |-> l = 0, lock |-> IF l = 0 THEN u ELSE l]

\* allocate_frame up to the split: the scan of BUDDY_SIZE[order..] and find_free(i)?
alloc_scan(a, order) ==
  LET cands == {i \in scan_classes(order) : a.free[i] > 0}
  IN IF cands = {} THEN [a |-> a, result |-> None, i |-> 0]
     ELSE With(Min(cands), LAMBDA i : With(find_free(a, i), LAMBDA f :
            [a |-> f.a, result |-> f.result, i |-> i]))

\* allocate_frame's split of the block found in class i
alloc_split(a, result, order, i) ==
  LET remaining == BUDDY_SIZE[i] - BUDDY_SIZE[order]
  IN IF remaining > 0 THEN split_loop(a, result, BUDDY_SIZE[order], i, remaining)
     ELSE [a |-> a, panic |-> FALSE]

\* one turn of deallocate_frame's while loop
dealloc_turn(a, addr, order) ==
  IF order >= BUDDY_LEN
  THEN [a |-> a, panic |-> FALSE, done |-> TRUE, addr |-> addr, order |-> order]
  ELSE IF order < BUDDY_LEN - 1
  THEN With(get_buddy(addr, order), LAMBDA buddy :
         With(clear_bit(a, buddy, order), LAMBDA c :
           IF c.panic
           THEN [a |-> c.a, panic |-> TRUE, done |-> TRUE, addr |-> addr, order |-> order]
           ELSE IF c.change
           THEN [a |-> c.a, panic |-> FALSE, done |-> FALSE,
                 addr |-> IF addr <= buddy THEN addr ELSE buddy, order |-> order + 1]
           ELSE With(set_bit(c.a, addr, order), LAMBDA t :
                  [a |-> t.a, panic |-> t.panic, done |-> TRUE, addr |-> addr,
                   order |-> order])))
  ELSE With(set_bit(a, addr, order), LAMBDA t :
         [a |-> t.a, panic |-> t.panic, done |-> TRUE, addr |-> addr, order |-> order])

\* the whole call of a unit on the allocator a: [a, panic, result]
run_alone(a, call) ==
  IF call.op = "alloc" THEN allocate_frame(a, call.order)
  ELSE With(deallocate_frame(a, call.addr, call.order), LAMBDA d :
         [a |-> d.a, panic |-> d.panic, result |-> None])

InitLock ==
  /\ boot_map \in LockMaps
  /\ mem_map = boot_map
  /\ status = "boot"
  /\ allocator = UninitAllocator
  /\ memory_ranges = <<>>
  /\ carved = <<>>
  /\ live = EmptyBag
  /\ last = Call("none", 0, 0, None)
  /\ half = {}
  /\ phys = << >>
  /\ pml4 = 0
  /\ plast = NoPageCall
  /\ spaces = << >>
  /\ region_iter = NoIter
  /\ heap = NoHeap
  /\ StartupIdle
  /\ lock = 0
  /\ units = [u \in Units |-> IdleUnit]
  /\ shadow = UninitAllocator

lockFrame == <<boot_map, half, pagingVars, region_iter, heap, startupVars>>

\* LockedFrameAllocator::init, during boot: lock, *allocator = BuddyFrameAllocator::new(..)
LockedInit ==
  /\ status = "boot"
  /\ Mutex_lock(lock, 0).acquired
  /\ \E n \in {BuddyFrameAllocator_new(mem_map)} :
        /\ allocator' = n.a
        /\ shadow' = n.a
        /\ mem_map' = n.mem_map
        /\ memory_ranges' = n.ranges
        /\ carved' = n.carved
        /\ status' = IF n.panic THEN "panic" ELSE "ready"
  /\ last' = Call("init", 0, 0, None)
  /\ UNCHANGED <<lockFrame, live, lock, units>>

\* a unit calls alloc(size)
CallAlloc(u, order) ==
  /\ status = "ready"
  /\ units[u].pc = "idle"
  /\ BagCardinality(live) < MaxLive
  /\ units' = [units EXCEPT ![u] = [IdleUnit EXCEPT !.pc = "wait", !.op = "alloc",
                                                     !.order = order]]
  /\ UNCHANGED <<lockFrame, mem_map, memory_ranges, carved, status, allocator, live, last,
                 lock, shadow>>

\* a unit calls dealloc(addr, size) with a block it was handed
CallDealloc(u, addr, order) ==
  /\ status = "ready"
  /\ units[u].pc = "idle"
  /\ BagIn(<<addr, order>>, live)
  /\ live' = live (-) SetToBag({<<addr, order>>})
  /\ units' = [units EXCEPT ![u] = [IdleUnit EXCEPT !.pc = "wait", !.op = "dealloc",
                                                     !.order = order, !.addr = addr]]
  /\ UNCHANGED <<lockFrame, mem_map, memory_ranges, carved, status, allocator, last, lock,
                 shadow>>

\* self.0.lock(): the unit gets the guard; the history runs its whole call on shadow
Lock(u) ==
  /\ status = "ready"
  /\ units[u].pc = "wait"
  /\ \E g \in {Mutex_lock(lock, u)} :
       /\ g.acquired
       /\ lock' = g.lock
  /\ \E r \in {run_alone(shadow, units[u])} :
       /\ shadow' = r.a
       /\ units' = [units EXCEPT ![u].pc = IF units[u].op = "alloc" THEN "scan" ELSE "merge",
                                 ![u].seq_result = r.result]
  /\ UNCHANGED <<lockFrame, mem_map, memory_ranges, carved, status, allocator, live, last>>

\* allocate_frame: the scan and find_free
AllocScan(u) ==
  /\ status = "ready"
  /\ units[u].pc = "scan"
  /\ \E r \in {alloc_scan(allocator, units[u].order)} :
       /\ allocator' = r.a
       /\ units' = [units EXCEPT ![u].pc = IF r.result.is_some THEN "split" ELSE "drop",
                                 ![u].result = r.result,
                                 ![u].i = r.i]
  /\ UNCHANGED <<lockFrame, mem_map, memory_ranges, carved, status, live, last, lock, shadow>>

\* allocate_frame: the split loop
AllocSplit(u) ==
  /\ status = "ready"
  /\ units[u].pc = "split"
  /\ \E r \in {alloc_split(allocator, units[u].result.value, units[u].order, units[u].i)} :
       /\ allocator' = r.a
       /\ status' = IF r.panic THEN "panic" ELSE "ready"
  /\ units' = [units EXCEPT ![u].pc = "drop"]
  /\ UNCHANGED <<lockFrame, mem_map, memory_ranges, carved, live, last, lock, shadow>>

\* deallocate_frame: one turn of the loop
DeallocTurn(u) ==
  /\ status = "ready"
  /\ units[u].pc = "merge"
  /\ \E r \in {dealloc_turn(allocator, units[u].addr, units[u].order)} :
       /\ allocator' = r.a
       /\ status' = IF r.panic THEN "panic" ELSE "ready"
       /\ units' = [units EXCEPT ![u].pc = IF r.done THEN "drop" ELSE "merge",
                                 ![u].addr = r.addr,
                                 ![u].order = r.order]
  /\ UNCHANGED <<lockFrame, mem_map, memory_ranges, carved, live, last, lock, shadow>>

\* the call returns and the guard is dropped
Drop(u) ==
  /\ status = "ready"
  /\ units[u].pc = "drop"
  /\ lock' = 0
  /\ live' = IF units[u].op = "alloc" /\ units[u].result.is_some
             THEN live (+) SetToBag({<<units[u].result.value, units[u].order>>})
             ELSE live
  /\ last' = Call(units[u].op, units[u].order, units[u].addr, units[u].result)
  /\ units' = [units EXCEPT ![u] = IdleUnit]
  /\ UNCHANGED <<lockFrame, mem_map, memory_ranges, carved, status, allocator, shadow>>

CallAllocStep == \E u \in Units, order \in LockOrders : CallAlloc(u, order)
CallDeallocStep == \E u \in Units, blk \in BagToSet(live) : CallDealloc(u, blk[1], blk[2])
LockStep == \E u \in Units : Lock(u)
AllocScanStep == \E u \in Units : AllocScan(u)
AllocSplitStep == \E u \in Units : AllocSplit(u)
DeallocTurnStep == \E u \in Units : DeallocTurn(u)
DropStep == \E u \in Units : Drop(u)

NextLock ==
  \/ LockedInit
  \/ CallAllocStep
  \/ CallDeallocStep
  \/ LockStep
  \/ AllocScanStep
  \/ AllocSplitStep
  \/ DeallocTurnStep
  \/ DropStep

SpecLock == InitLock /\ [][NextLock]_vars

(***************************************************************************)
(* Two execution units in map_page on the same page map (paging/mod.rs     *)
(* 119-157).  map_page takes &self and no lock: only the frame allocation  *)
(* is serialised, by FRAME_ALLOCATOR's Mutex.  Each unit takes one step of *)
(* the walk at a time: the test of an entry, the creation of a table, the  *)
(* descent into it, the write of the leaf.                                 *)
(***************************************************************************)
\* a test that takes every entry of the path for an unused one
map_level_check_unused(mem, table, idx) ==
  [unused |-> TRUE, next |-> entry_addr(entry_at(mem, table, idx))]

\* `let entry = &mut page_table[index]; if entry.is_unused() {..}` and, for an
\* entry in use, `page_table = page_table_from_addr(entry.addr())`
map_level_check(mem, table, idx) ==
  [unused |-> is_unused(entry_at(mem, table, idx)),
   next |-> entry_addr(entry_at(mem, table, idx))]

\* the body of `if entry.is_unused()`: allocate_frame(), set_frame, zero()
map_level_create(mem, a, table, idx) ==
  With(allocate_frame(a, order_from_size(PAGE_SIZE)), LAMBDA r :
    IF r.panic \/ ~r.result.is_some
    THEN [mem |-> mem, a |-> r.a, panic |-> r.panic, failed |-> ~r.panic, frame |-> 0]
    ELSE With(containing_addr(r.result.value), LAMBDA tf :
           [mem |-> zero_table(write_entry(mem, table, idx,
                                           set_frame(entry_at(mem, table, idx), tf,
                                                     TableFlags)), tf),
            a |-> r.a, panic |-> FALSE, failed |-> FALSE, frame |-> tf]))

\* the leaf: PageAlreadyMapped for an entry in use, else set_frame and Ok
map_leaf(mem, table, page, frame, flags) ==
  LET idx == p1_index(page)
      entry == entry_at(mem, table, idx)
      mem2 == write_entry(mem, table, idx, set_frame(entry, frame, flags))
  IN IF ~is_unused(entry)
     THEN [mem |-> mem, panic |-> ~entry_frame(entry).ok, result |-> "PageAlreadyMapped"]
     ELSE IF set_frame_panics(frame, flags) \/ ~entry_frame(entry_at(mem2, table, idx)).ok
     THEN [mem |-> mem2, panic |-> TRUE, result |-> "panic"]
     ELSE [mem |-> mem2, panic |-> FALSE, result |-> "Ok"]

\* the index of the page in the table at level k of its path (1 = p4 .. 4 = p1)
PathIndex(page, k) == <<p4_index(page), p3_index(page), p2_index(page), p1_index(page)>>[k]

\* the pages the units map: two pairs that share the tables they lack
RacePages ==
  { VA(0, 0, 0, 0, 0), VA(0, 0, 0, 1, 0), VA(256, 0, 2, 0, 0), VA(256, 0, 2, 1, 0) }

\* the frame unit u maps its page to: a reserved frame of its own
RaceFrame(u) == Pg(12 + u)

IdleWalker ==
  [pc |-> "idle", page |-> VA(0, 0, 0, 0, 0), reread |-> FALSE, k |-> 0, table |-> 0,
   frame |-> 0, taken |-> <<>>, result |-> "", overlapped |-> FALSE]

InitRace ==
  /\ boot_map = UserBootMap
  /\ mem_map = boot_map
  /\ status = "boot"
  /\ allocator = UninitAllocator
  /\ memory_ranges = <<>>
  /\ carved = <<>>
  /\ live = EmptyBag
  /\ last = Call("none", 0, 0, None)
  /\ half = {}
  /\ \E junk \in JunkTables : phys = UserMemory(junk)
  /\ pml4 = BootPml4
  /\ plast = NoPageCall
  /\ spaces = << >>
  /\ region_iter = NoIter
  /\ heap = NoHeap
  /\ StartupIdle
  /\ lock = 0
  /\ units = [u \in Units |-> IdleWalker]
  /\ shadow = UninitAllocator

raceFrame == <<boot_map, mem_map, memory_ranges, carved, last, half, pml4, plast, spaces,
               region_iter, heap, startupVars, lock, shadow>>

\* in the middle of a map_page call
Walking(u) == units[u].pc \notin {"idle", "done"}

\* where the walk stands after level k
AfterLevel(k) == IF k >= 3 THEN "leaf" ELSE "check"

\* unit u calls pml4.map_page(page, RaceFrame(u), PRESENT | WRITEABLE) for a
\* page that is not mapped and that no other unit has asked for
WalkerStart(u, page, reread) ==
  /\ status = "ready"
  /\ units[u].pc = "idle"
  /\ translate_addr(phys, pml4, page) = [panic |-> FALSE, result |-> None]
  /\ \A v \in Units \ {u} : units[v].pc # "idle" => units[v].page # page
  /\ units' = [v \in Units |->
                 IF v = u
                 THEN [IdleWalker EXCEPT !.pc = "check", !.page = page, !.reread = reread,
                                         !.k = 1, !.table = pml4,
                                         !.overlapped = \E w \in Units \ {u} : Walking(w)]
                 ELSE [units[v] EXCEPT !.overlapped = @ \/ Walking(v)]]
  /\ UNCHANGED <<raceFrame, status, allocator, live, phys>>

\* the test of the entry at level k
WalkerCheck(u) ==
  /\ status = "ready"
  /\ units[u].pc = "check"
  /\ \E c \in {map_level_check(phys, units[u].table, PathIndex(units[u].page, units[u].k))} :
       units' = [units EXCEPT ![u] =
                   IF c.unused THEN [@ EXCEPT !.pc = "create"]
                   ELSE [@ EXCEPT !.table = c.next, !.k = @ + 1, !.pc = AfterLevel(units[u].k)]]
  /\ UNCHANGED <<raceFrame, status, allocator, live, phys>>

\* the creation of the table the entry lacked
WalkerCreate(u) ==
  /\ status = "ready"
  /\ units[u].pc = "create"
  /\ \E r \in {map_level_create(phys, allocator, units[u].table,
                                 PathIndex(units[u].page, units[u].k))} :
       /\ phys' = r.mem
       /\ allocator' = r.a
       /\ status' = IF r.panic THEN "panic" ELSE "ready"
       /\ live' = IF r.panic \/ r.failed THEN live ELSE live (+) SetToBag({<<r.frame, 0>>})
       /\ units' = [units EXCEPT ![u] =
                      IF r.panic \/ r.failed
                      THEN [@ EXCEPT !.pc = "done",
                                     !.result = IF r.panic THEN "panic" ELSE "AllocationFailed"]
                      ELSE [@ EXCEPT !.pc = "descend", !.frame = r.frame,
                                     !.taken = Append(@, r.frame)]]
  /\ UNCHANGED raceFrame

\* `page_table = Self::page_table_from_addr(entry.addr())` after the creation
WalkerDescend(u) ==
  /\ status = "ready"
  /\ units[u].pc = "descend"
  /\ units' = [units EXCEPT ![u] =
                 [@ EXCEPT !.table = next_table(phys, units[u].table,
                                                PathIndex(units[u].page, units[u].k),
                                                units[u].frame, units[u].reread),
                           !.k = @ + 1, !.pc = AfterLevel(units[u].k)]]
  /\ UNCHANGED <<raceFrame, status, allocator, live, phys>>

\* the leaf entry
WalkerLeaf(u) ==
  /\ status = "ready"
  /\ units[u].pc = "leaf"
  /\ \E r \in {map_leaf(phys, units[u].table, units[u].page, RaceFrame(u),
                         {PRESENT, WRITEABLE})} :
       /\ phys' = r.mem
       /\ status' = IF r.panic THEN "panic" ELSE "ready"
       /\ units' = [units EXCEPT ![u] = [@ EXCEPT !.pc = "done", !.result = r.result]]
  /\ UNCHANGED <<raceFrame, allocator, live>>

WalkerStartStep ==
  \E u \in Units, page \in RacePages, reread \in BOOLEAN : WalkerStart(u, page, reread)
WalkerCheckStep == \E u \in Units : WalkerCheck(u)
WalkerCreateStep == \E u \in Units : WalkerCreate(u)
WalkerDescendStep == \E u \in Units : WalkerDescend(u)
WalkerLeafStep == \E u \in Units : WalkerLeaf(u)

NextRace ==
  \/ FrameAllocatorInit
  \/ WalkerStartStep
  \/ WalkerCheckStep
  \/ WalkerCreateStep
  \/ WalkerDescendStep
  \/ WalkerLeafStep

SpecRace == InitRace /\ [][NextRace]_vars

(***************************************************************************)
(* The boot sequence: arch/x86_64/mod.rs.  The bootstrap processor runs    *)
(* x86_64_molecule_main; an application processor starts in ap_main when   *)
(* the bootstrap processor writes its goto_address.  Each processor takes  *)
(* one step of its program at a time; HHDM_OFFSET and LOCAL_APIC are Once  *)
(* cells, BSP_READY and CPU_COUNT are SeqCst atomics.                      *)
(***************************************************************************)
\* a sequence of steps that runs the (init_heap) step before FRAME_ALLOCATOR.init
molecule_main_steps_heap_first ==
  << "logger_init", "hhdm_call_once", "gdt_idt_init", "smp_start", "init_heap", "paging_init",
     "framebuffer_init", "init_hpet", "apic_init", "banner", "set_bsp_ready", "kmain" >>

\* a sequence of steps that sets HHDM_OFFSET after the memory manager is up
molecule_main_steps_hhdm_late ==
  << "logger_init", "gdt_idt_init", "smp_start", "paging_init", "hhdm_call_once", "init_heap",
     "framebuffer_init", "init_hpet", "apic_init", "banner", "set_bsp_ready", "kmain" >>

\* x86_64_molecule_main in program order
molecule_main_steps ==
  << "logger_init", "hhdm_call_once", "gdt_idt_init", "smp_start", "paging_init", "init_heap",
     "framebuffer_init", "init_hpet", "apic_init", "banner", "set_bsp_ready", "kmain" >>

\* ap_main in program order
ap_main_steps == << "gdt_idt_init", "spin", "init_ap", "kmain" >>

\* the position of a step in a program
StepIndex(steps, name) == CHOOSE k \in 1..Len(steps) : steps[k] = name

\* spin::Once::call_once: the first call stores the value, later calls leave it
call_once(cell, v) == IF cell.is_some THEN cell ELSE Some(v)

\* ApicType::from(FeatureInfo)
ApicTypes == {"Xapic", "X2apic", "None"}

\* the lapic id of the bootstrap processor in the SMP response
bsp_lapic_id == 0

\* the cpus of the SMP response
CpuLists == { <<0>>, <<0, 1>>, <<1, 0>>, <<0, 1, 2>> }

Machines ==
  [hhdm : {None, Some(HHDM_OFFSET)}, cpus : CpuLists, apic_type : ApicTypes]

InitStartup ==
  /\ boot_map \in {PagingBootMap, SpacesBootMap}
  /\ mem_map = boot_map
  /\ status = "boot"
  /\ allocator = UninitAllocator
  /\ memory_ranges = <<>>
  /\ carved = <<>>
  /\ live = EmptyBag
  /\ last = Call("none", 0, 0, None)
  /\ half = {}
  /\ \E junk \in JunkTables :
       phys = IF boot_map = PagingBootMap THEN BootMemory(junk) ELSE SpacesMemory(junk)
  /\ pml4 = BootPml4
  /\ plast = NoPageCall
  /\ spaces = << >>
  /\ region_iter = NoIter
  /\ heap = NoHeap
  /\ machine \in Machines
  /\ bsp = [pc |-> 1, cpu |-> 1, panicked |-> FALSE]
  /\ aps = [c \in {machine.cpus[k] : k \in 1..Len(machine.cpus)} \ {bsp_lapic_id} |->
              [pc |-> 0, cpu |-> c, panicked |-> FALSE]]
  /\ hhdm_offset = None
  /\ BSP_READY = FALSE
  /\ LOCAL_APIC = None
  /\ CPU_COUNT = 0
  /\ events = NoEvents
  /\ LockIdle

memVars == <<boot_map, mem_map, status, allocator, memory_ranges, carved, live, last, half,
             phys, pml4, plast, spaces, region_iter, heap>>

\* the bootstrap processor is about to run the step `name`
BspAt(name) ==
  /\ ~bsp.panicked
  /\ bsp.pc \in 1..Len(molecule_main_steps)
  /\ molecule_main_steps[bsp.pc] = name

BspAdvance == [bsp EXCEPT !.pc = @ + 1]
BspPanic == [bsp EXCEPT !.panicked = TRUE]

\* PhysAddr::as_hddm_virt called by `cpu` in step `site`: HHDM_OFFSET.get().unwrap()
Converted(cpu, site) ==
  [events EXCEPT !.conversions = @ \cup {[cpu |-> cpu, site |-> site, offset |-> hhdm_offset]}]

\* steps that touch none of the cells followed here: uart, logger, GDT, IDT,
\* exception handlers, framebuffer, enable_interrupts and the banner
BspPlain ==
  /\ \E name \in {"logger_init", "gdt_idt_init", "framebuffer_init", "banner"} : BspAt(name)
  /\ bsp' = BspAdvance
  /\ UNCHANGED <<memVars, machine, aps, hhdm_offset, BSP_READY, LOCAL_APIC, CPU_COUNT, events,
                 lockVars>>

\* HHDM_OFFSET.call_once(|| VirtAddr::new(HHDM_REQUEST.get_response().expect(..).offset()))
BspHhdm ==
  /\ BspAt("hhdm_call_once")
  /\ IF machine.hhdm.is_some
     THEN /\ hhdm_offset' = call_once(hhdm_offset, machine.hhdm.value)
          /\ bsp' = BspAdvance
     ELSE /\ hhdm_offset' = hhdm_offset
          /\ bsp' = BspPanic
  /\ UNCHANGED <<memVars, machine, aps, BSP_READY, LOCAL_APIC, CPU_COUNT, events, lockVars>>

\* for cpu in smp_response.cpus_mut(): count it and start it at ap_main unless it is the BSP
BspSmp ==
  /\ BspAt("smp_start")
  /\ IF bsp.cpu <= Len(machine.cpus)
     THEN /\ CPU_COUNT' = CPU_COUNT + 1
          /\ bsp' = [bsp EXCEPT !.cpu = @ + 1]
          /\ aps' = IF machine.cpus[bsp.cpu] = bsp_lapic_id THEN aps
                    ELSE [aps EXCEPT ![machine.cpus[bsp.cpu]].pc = 1]
     ELSE /\ bsp' = BspAdvance
          /\ UNCHANGED <<CPU_COUNT, aps>>
  /\ UNCHANGED <<memVars, machine, hhdm_offset, BSP_READY, LOCAL_APIC, events, lockVars>>

\* paging::init: FRAME_ALLOCATOR.init(mem_map); new() reaches the region array
\* through as_hddm_virt
BspPagingInit ==
  /\ BspAt("paging_init")
  /\ events' = Converted("bsp", "paging_init")
  /\ IF ~hhdm_offset.is_some
     THEN /\ bsp' = BspPanic
          /\ UNCHANGED <<allocator, mem_map, memory_ranges, carved, status, last>>
     ELSE \E n \in {BuddyFrameAllocator_new(mem_map)} :
            /\ allocator' = n.a
            /\ mem_map' = n.mem_map
            /\ memory_ranges' = n.ranges
            /\ carved' = n.carved
            /\ status' = IF n.panic THEN "panic" ELSE "ready"
            /\ last' = Call("init", 0, 0, None)
            /\ bsp' = IF n.panic THEN BspPanic ELSE BspAdvance
  /\ UNCHANGED <<boot_map, live, half, pagingVars, region_iter, heap, machine, aps,
                 hhdm_offset, BSP_READY, LOCAL_APIC, CPU_COUNT, lockVars>>

\* init_heap(&mut active_level_4_table()).expect(..); map_page reaches the
\* tables through as_hddm_virt
BspInitHeap ==
  /\ BspAt("init_heap")
  /\ \E reread \in BOOLEAN : \E r \in {init_heap(phys, allocator, pml4, reread)} :
       /\ events' = [(IF r.calls > 0 THEN Converted("bsp", "init_heap") ELSE events)
                       EXCEPT !.heap_entries =
                         @ \cup {[ready |-> status = "ready", map_calls |-> r.calls]}]
       /\ IF r.calls > 0 /\ ~hhdm_offset.is_some
          THEN /\ bsp' = BspPanic
               /\ UNCHANGED <<phys, allocator, live, heap, status>>
          ELSE /\ phys' = r.mem
               /\ allocator' = r.a
               /\ live' = live (+) SeqToBag(r.taken, Len(r.taken))
               /\ heap' = HeapAfter(r)
               /\ status' = IF r.panic THEN "panic" ELSE status
               /\ bsp' = IF r.result = "Ok" THEN BspAdvance ELSE BspPanic
  /\ UNCHANGED <<boot_map, mem_map, memory_ranges, carved, last, half, pml4, plast, spaces,
                 region_iter, machine, aps, hhdm_offset, BSP_READY, LOCAL_APIC, CPU_COUNT,
                 lockVars>>

\* hpet::init_hpet(ACPI_TABLES.hpet()): the ACPI tables are found through as_hddm_virt
BspInitHpet ==
  /\ BspAt("init_hpet")
  /\ events' = Converted("bsp", "init_hpet")
  /\ bsp' = IF hhdm_offset.is_some THEN BspAdvance ELSE BspPanic
  /\ UNCHANGED <<memVars, machine, aps, hhdm_offset, BSP_READY, LOCAL_APIC, CPU_COUNT,
                 lockVars>>

\* apic::init(): return when CPUID reports no APIC; else convert the APIC base,
\* lapic.init() (LocalApic::write is unreachable!() unless Xapic), LOCAL_APIC.call_once
BspApicInit ==
  /\ BspAt("apic_init")
  /\ IF machine.apic_type = "None"
     THEN /\ bsp' = BspAdvance
          /\ UNCHANGED <<events, LOCAL_APIC>>
     ELSE /\ events' = Converted("bsp", "apic_init")
          /\ IF ~hhdm_offset.is_some \/ machine.apic_type # "Xapic"
             THEN /\ bsp' = BspPanic
                  /\ LOCAL_APIC' = LOCAL_APIC
             ELSE /\ bsp' = BspAdvance
                  /\ LOCAL_APIC' = call_once(LOCAL_APIC, machine.apic_type)
  /\ UNCHANGED <<memVars, machine, aps, hhdm_offset, BSP_READY, CPU_COUNT, lockVars>>

\* apic::set_bsp_ready(): BSP_READY.store(true, SeqCst)
BspSetReady ==
  /\ BspAt("set_bsp_ready")
  /\ BSP_READY' = TRUE
  /\ bsp' = BspAdvance
  /\ UNCHANGED <<memVars, machine, aps, hhdm_offset, LOCAL_APIC, CPU_COUNT, events, lockVars>>

\* the application processor `c` is about to run the step `name`
ApAt(c, name) ==
  /\ ~aps[c].panicked
  /\ aps[c].pc \in 1..Len(ap_main_steps)
  /\ ap_main_steps[aps[c].pc] = name

\* ap_main: disable_interrupts, gdt::init, idt::init
ApPlain(c) ==
  /\ ApAt(c, "gdt_idt_init")
  /\ aps' = [aps EXCEPT ![c].pc = @ + 1]
  /\ UNCHANGED <<memVars, machine, bsp, hhdm_offset, BSP_READY, LOCAL_APIC, CPU_COUNT, events,
                 lockVars>>

\* while !apic::get_bsp_ready() { spin_loop() }: one test of the flag
ApSpin(c) ==
  /\ ApAt(c, "spin")
  /\ aps' = IF BSP_READY THEN [aps EXCEPT ![c].pc = @ + 1] ELSE aps
  /\ UNCHANGED <<memVars, machine, bsp, hhdm_offset, BSP_READY, LOCAL_APIC, CPU_COUNT, events,
                 lockVars>>

\* apic::init_ap(): get_local_apic() is LOCAL_APIC.get().expect(..), then LocalApic::init
ApInitAp(c) ==
  /\ ApAt(c, "init_ap")
  /\ events' = [events EXCEPT !.ap_inits =
                  @ \cup {[cpu |-> c, ready |-> BSP_READY, lapic |-> LOCAL_APIC,
                           bsp_pc |-> bsp.pc]}]
  /\ aps' = IF LOCAL_APIC.is_some THEN [aps EXCEPT ![c].pc = @ + 1]
            ELSE [aps EXCEPT ![c].panicked = TRUE]
  /\ UNCHANGED <<memVars, machine, bsp, hhdm_offset, BSP_READY, LOCAL_APIC, CPU_COUNT, lockVars>>

ApPlainStep == \E c \in DOMAIN aps : ApPlain(c)
ApSpinStep == \E c \in DOMAIN aps : ApSpin(c)
ApInitApStep == \E c \in DOMAIN aps : ApInitAp(c)

NextStartup ==
  \/ BspPlain
  \/ BspHhdm
  \/ BspSmp
  \/ BspPagingInit
  \/ BspInitHeap
  \/ BspInitHpet
  \/ BspApicInit
  \/ BspSetReady
  \/ ApPlainStep
  \/ ApSpinStep
  \/ ApInitApStep

SpecStartup == InitStartup /\ [][NextStartup]_vars

\* frame.rs: total_memory()
total_memory == allocator.size

(***************************************************************************)
(* Notions the properties below are stated with.                           *)
(***************************************************************************)
BlocksOverlap(x, y) == Overlap(x[1], BUDDY_SIZE[x[2]], y[1], BUDDY_SIZE[y[2]])

\* the blocks <<addr, order>> whose bit is set, at the address find_free hands them out
FreeBlocks(a) ==
  {<<find_free_addr(a, o, i), o>> : <<o, i>> \in {oi \in Orders \X (0..(BLOCK_BITS * 2)) :
                                                    oi[2] \in a.buddies[oi[1]].bits}}

\* bytes marked free in the bitmaps
RECURSIVE SumBits(_, _)
SumBits(a, o) ==
  IF o >= BUDDY_LEN THEN 0
  ELSE Cardinality(a.buddies[o].bits) * BUDDY_SIZE[o] + SumBits(a, o + 1)

RECURSIVE SumSeq(_, _)
SumSeq(f, k) == IF k = 0 THEN 0 ELSE f[k] + SumSeq(f, k - 1)

UsableBytes(map) ==
  SumSeq([k \in 1..Len(map) |-> IF map[k].entry_type = USABLE THEN map[k].length ELSE 0],
         Len(map))

CarvedBytes == SumSeq([k \in 1..Len(carved) |-> carved[k].size], Len(carved))

LiveCount == BagCardinality(live)

(***************************************************************************)
(* C1. No two live blocks overlap in physical address range; in particular *)
(* no block is handed out twice while it is live.                          *)
(***************************************************************************)
C1_LiveBlocksDisjoint ==
  \A x \in BagToSet(live) :
    /\ CopiesIn(x, live) = 1
    /\ \A y \in BagToSet(live) : x # y => ~BlocksOverlap(x, y)

(***************************************************************************)
(* C2. In every state of the constructed allocator the blocks whose bits   *)
(* are set are pairwise disjoint across all ten orders.                    *)
(***************************************************************************)
C2_FreeBlocksDisjoint ==
  status = "ready" =>
    \A x \in FreeBlocks(allocator) : \A y \in FreeBlocks(allocator) :
      x # y => ~BlocksOverlap(x, y)

(***************************************************************************)
(* C5. A freshly constructed allocator reporting F bytes hands out exactly *)
(* F / 4096 frames to consecutive allocate_frame() calls: never more, and  *)
(* the call that returns None comes after exactly that many.               *)
(***************************************************************************)
C5_ExhaustsAfterTotal ==
  status = "ready" =>
    /\ LiveCount <= total_memory \div PAGE_SIZE
    /\ (last.op = "alloc" /\ ~last.result.is_some) => LiveCount = total_memory \div PAGE_SIZE

(***************************************************************************)
(* C6. allocate_frame(order) returns None exactly when no class >= order   *)
(* holds a free block, and then it neither panics nor changes a bitmap or  *)
(* a free[] count.                                                         *)
(***************************************************************************)
NoFreeBlockFrom(a, order) == \A i \in order..(BUDDY_LEN - 1) : a.buddies[i].bits = {}

C6_NoneIffNoFreeBlock ==
  status = "ready" =>
    \A order \in Orders :
      LET r == allocate_frame(allocator, order)
      IN /\ (~r.result.is_some) <=> NoFreeBlockFrom(allocator, order)
         /\ (~r.result.is_some) => (~r.panic /\ r.a = allocator)

C6_Witness ==
  /\ status = "ready"
  /\ last.op = "alloc" /\ ~last.result.is_some
  /\ NoFreeBlockFrom(allocator, last.order)
  /\ ~NoFreeBlockFrom(allocator, 0)

(***************************************************************************)
(* C7. After construction total_memory() is the sum of the USABLE entries' *)
(* lengths minus the bytes carved out for the allocator's own metadata,    *)
(* and it is the total size of the blocks marked free.                     *)
(***************************************************************************)
C7_TotalAfterNew ==
  (status = "ready" /\ last.op = "init") =>
    /\ total_memory = UsableBytes(boot_map) - CarvedBytes
    /\ total_memory = SumBits(allocator, 0)

(***************************************************************************)
(* C3. Coalescing: when the second of two allocated order-0 buddies is     *)
(* deallocated (the first was deallocated while the second was held), the  *)
(* call returns, the parent is covered by a free block of order >= 1,      *)
(* neither child bit is set at order 0, and an order-1 allocation succeeds.*)
(***************************************************************************)
BitSet(a, addr, order) ==
  /\ addr >= a.base
  /\ get_bit_idx(a, addr, order) \in a.buddies[order].bits

Parent(addr) == align_down(addr, 2 * PAGE_SIZE)

\* a free block of order >= 1 covers the 8 KiB block at p
ParentFree(a, p) ==
  \E x \in FreeBlocks(a) :
    x[2] >= 1 /\ x[1] <= p /\ p + 2 * PAGE_SIZE <= x[1] + BUDDY_SIZE[x[2]]

\* the step deallocates the held buddy of a freed half
SecondBuddyFreed ==
  /\ last'.op = "dealloc" /\ last'.order = 0
  /\ live' # live
  /\ get_buddy(last'.arg, 0) \in half
  /\ ~BagIn(<<last'.arg, 0>>, live')

C3_Coalesced ==
  /\ status' = "ready"
  /\ ParentFree(allocator', Parent(last'.arg))
  /\ ~BitSet(allocator', last'.arg, 0)
  /\ ~BitSet(allocator', get_buddy(last'.arg, 0), 0)
  /\ allocate_frame(allocator', 1).result.is_some

C3_BuddiesCoalesce == [][SecondBuddyFreed => C3_Coalesced]_vars

(***************************************************************************)
(* C4. While one of two allocated order-0 buddies has been deallocated and *)
(* the other is still held, the freed block is marked free at order 0, no  *)
(* free block of order >= 1 contains the held buddy, and no allocation of  *)
(* order >= 1 returns a block that contains it.                            *)
(***************************************************************************)
C4_HalfFreeState ==
  status = "ready" =>
    \A a \in half :
      /\ BitSet(allocator, a, 0)
      /\ ~ParentFree(allocator, Parent(a))

C4_NoParentAlloc ==
  \A a \in half :
    (last'.op = "alloc" /\ last'.order >= 1 /\ last'.result.is_some /\ live' # live)
      => ~Overlap(last'.result.value, BUDDY_SIZE[last'.order], get_buddy(a, 0), PAGE_SIZE)

C4_BuddyStillInUse == [](C4_HalfFreeState) /\ [][C4_NoParentAlloc]_vars

C4_Witness ==
  /\ status = "ready"
  /\ half # {}
  /\ last.op = "alloc" /\ last.order = 1


(***************************************************************************)
(* Claims about the page map (SpecPaging).                                 *)
(***************************************************************************)
NotMapped(mem, v) == translate_addr(mem, pml4, v) = [panic |-> FALSE, result |-> None]

\* C8. Round trip, map half: for a page-aligned v that is not mapped and a
\* frame f, when map_page(v, f, flags) with PRESENT and without HUGE_PAGE in
\* flags returns Ok, it returns f and translate_addr(v + off) is
\* Some(start(f) + off) for the offsets of the page.
C8_MapThenTranslate ==
  status = "ready" =>
    \A v \in VPages, f \in DataFrames, flags \in FlagChoices, reread \in BOOLEAN :
      LET r == map_page(phys, allocator, pml4, v, f, flags, reread)
      IN (/\ NotMapped(phys, v)
          /\ PRESENT \in flags
          /\ HUGE_PAGE \notin flags
          /\ r.result = "Ok")
         => /\ r.frame = f
            /\ \A off \in Offsets :
                 translate_addr(r.mem, pml4, va_add(v, off))
                   = [panic |-> FALSE, result |-> Some(f + off)]

\* C9. Round trip, unmap half: unmap_page(v) on a page mapped to frame f
\* returns Ok(f), clears the leaf entry, and translate_addr(v) is None afterwards.
C9_UnmapThenTranslate ==
  status = "ready" =>
    \A v \in VPages :
      LET was == translate_page(phys, pml4, v)
          r == unmap_page(phys, pml4, v)
      IN was.ok
         => /\ r.result = "Ok"
            /\ r.frame = was.frame
            /\ is_unused(entry_at(r.mem, r.table, p1_index(v)))
            /\ \A off \in Offsets : NotMapped(r.mem, va_add(v, off))

\* the last call unmapped a page that was mapped
C9_Witness ==
  /\ status = "ready"
  /\ plast.op = "unmap_page"
  /\ plast.was_ok
  /\ plast.result = "Ok"
  /\ plast.ret_was
  /\ ~plast.now_ok

\* C10. Mapping a page that is already mapped returns
\* Err(PageAlreadyMapped(existing frame)) and leaves the leaf entry, the
\* page tables and translate_addr of the page unchanged.
C10_DoubleMapRefused ==
  status = "ready" =>
    \A v \in VPages, f \in DataFrames, flags \in FlagChoices, reread \in BOOLEAN :
      LET was == translate_page(phys, pml4, v)
          r == map_page(phys, allocator, pml4, v, f, flags, reread)
      IN was.ok
         => /\ ~r.panic
            /\ r.result = "PageAlreadyMapped"
            /\ r.frame = was.frame
            /\ r.mem = phys
            /\ r.a = allocator
            /\ \A off \in Offsets :
                 translate_addr(r.mem, pml4, va_add(v, off))
                   = translate_addr(phys, pml4, va_add(v, off))

\* the last call mapped, with another frame, a page that was mapped and still is
C10_Witness ==
  /\ status = "ready"
  /\ plast.op = "map_page"
  /\ plast.was_ok
  /\ plast.other
  /\ plast.result = "PageAlreadyMapped"
  /\ plast.ret_was
  /\ plast.kept

\* a present entry that is not a huge one
Ordinary(e) == PRESENT \in e.flags /\ HUGE_PAGE \notin e.flags

\* the p4, p3, p2 and p1 entries on the path of v, each read in the table the
\* address bits of the one above name
PathEntries(mem, root, v) ==
  LET e4 == entry_at(mem, root, p4_index(v))
      e3 == entry_at(mem, containing_addr(e4.addr), p3_index(v))
      e2 == entry_at(mem, containing_addr(e3.addr), p2_index(v))
      e1 == entry_at(mem, containing_addr(e2.addr), p1_index(v))
  IN <<e4, e3, e2, e1>>

\* v lies inside a 2 MiB mapping: ordinary p4 and p3 entries, a present huge p2 entry
HugeParent(mem, root, v) ==
  LET es == PathEntries(mem, root, v)
  IN Ordinary(es[1]) /\ Ordinary(es[2]) /\ PRESENT \in es[3].flags /\ HUGE_PAGE \in es[3].flags

\* C11. unmap_page(page) on a page that is not mapped returns
\* Err(PageNotMapped) and leaves every page table unchanged, whether the leaf
\* or an intermediate table is absent, and every table the walk reads is
\* reached through a present entry.
C11_UnmapUnmapped ==
  status = "ready" =>
    \A v \in VPages :
      LET r == unmap_page(phys, pml4, v)
          reads == unmap_reads(phys, pml4, <<p4_index(v), p3_index(v), p2_index(v)>>, 1)
      IN NotMapped(phys, v)
         => /\ r.result = "PageNotMapped"
            /\ r.mem = phys
            /\ \A k \in 1..3 : PRESENT \in reads[k].flags

\* C12. unmap_page(page) on a page inside a huge mapping (a present p2 entry
\* with HUGE_PAGE) returns Err(ParentEntryHugePage) and modifies no entry.
C12_UnmapInsideHuge ==
  status = "ready" =>
    \A v \in VPages :
      LET r == unmap_page(phys, pml4, v)
      IN HugeParent(phys, pml4, v)
         => /\ r.result = "ParentEntryHugePage"
            /\ r.mem = phys

HugeSize == PAGE_SIZE * ENTRY_COUNT

\* addresses inside the 2 MiB mapping of the boot tables
HugeProbes == {VA(256, 0, 1, p1, off) : p1 \in {0, 1, ENTRY_COUNT - 1}, off \in Offsets}

\* C13. translate_addr on an address v covered by a present huge p2 entry
\* with physical base B returns Some(B + (v mod 2 MiB)).
C13_HugeTranslate ==
  \A v \in HugeProbes :
    HugeParent(phys, pml4, v)
    => translate_addr(phys, pml4, v)
         = [panic |-> FALSE,
            result |-> Some(PathEntries(phys, pml4, v)[3].addr + (v.lo % HugeSize))]

\* C14. translate_page(page) walks p4, p3, p2, p1 and stops at the first
\* entry that is not an ordinary present one: Err(FrameNotPresent) if it is
\* not present, Err(HugePageNotSupported) if it is present and huge, and
\* Ok(frame of the p1 entry) only when all four are present and not huge.
C14_TranslatePageWalk ==
  \A v \in VPages :
    LET es == PathEntries(phys, pml4, v)
        bad == {k \in 1..4 : ~Ordinary(es[k])}
        r == translate_page(phys, pml4, v)
    IN IF bad = {}
       THEN r = [ok |-> TRUE, err |-> "", frame |-> containing_addr(es[4].addr)]
       ELSE /\ ~r.ok
            /\ r.err = IF PRESENT \notin es[Min(bad)].flags THEN "FrameNotPresent"
                       ELSE "HugePageNotSupported"

\* after a map_page that succeeded, the pages show all three outcomes
C14_Witness ==
  /\ plast.op = "map_page"
  /\ plast.result = "Ok"
  /\ \E v \in VPages : translate_page(phys, pml4, v).ok
  /\ \E v \in VPages : translate_page(phys, pml4, v).err = "FrameNotPresent"
  /\ \E v \in VPages : translate_page(phys, pml4, v).err = "HugePageNotSupported"

(***************************************************************************)
(* Claims about address spaces (SpecSpaces).                               *)
(***************************************************************************)
\* C15. Every AddressSpace::new() that succeeds uses an L4 frame distinct
\* from the active L4 frame and from that of every other live address space;
\* right after creation its entries 256..511 equal the active table's and its
\* entries 0..255 are unused.
C15_NewSpaceDistinct ==
  /\ \A i \in 1..Len(spaces) :
       /\ spaces[i] # pml4
       /\ \A j \in 1..Len(spaces) : i # j => spaces[i] # spaces[j]
  /\ (plast.op = "AddressSpace_new" /\ plast.result = "Ok")
     => LET cr3 == spaces[Len(spaces)]
        IN /\ \A i \in 256..(ENTRY_COUNT - 1) :
                entry_at(phys, cr3, i) = entry_at(phys, pml4, i)
           /\ \A i \in 0..255 : is_unused(entry_at(phys, cr3, i))

\* kernel-half addresses looked up in every address space
KernelProbes ==
  { VA(256, 0, 0, 0, 0), VA(256, 0, 2, 0, 0), VA(256, 0, 2, 0, 1), VA(509, 0, 0, 0, 0) }

\* C16. Kernel mappings stay shared: after any map_page/unmap_page calls on
\* kernel-half pages through the page maps of address spaces made by
\* AddressSpace::new(), every kernel-half address translates identically in
\* any two of them.
C16_KernelShared ==
  \A i \in 1..Len(spaces), j \in 1..Len(spaces), v \in KernelProbes :
    translate_addr(phys, spaces[i], v) = translate_addr(phys, spaces[j], v)

(***************************************************************************)
(* Claims about the normalizer and the bootstrap allocator.                *)
(***************************************************************************)
\* the byte range [b, b + s) lies inside entry e
InsideEntry(b, s, e) == e.base <= b /\ b + s <= entry_end(e)

\* C17. Every region the normalizer produces, as BuddyFrameAllocator::new
\* drives it, lies inside one USABLE entry of the firmware memory map: no
\* byte of a non-USABLE entry, the first included, is in a produced region.
C17_RegionsInsideUsable ==
  status = "ready" =>
    LET regs == collect_regions(mem_map, initial_cursor(mem_map), <<>>).regions
    IN \A k \in 1..Len(regs) :
         \E j \in 1..Len(boot_map) :
           /\ boot_map[j].entry_type = USABLE
           /\ InsideEntry(regs[k].base, regs[k].size, boot_map[j])

\* C18. Every region the normalizer yields from a USABLE entry has a
\* page-aligned base and a size that is a non-negative multiple of 4096,
\* computed without underflow, and does not extend past the end of that
\* entry, whatever the entry's base and length.
C18_RegionsPageAligned ==
  /\ ~(status = "panic" /\ last.op = "next")
  /\ (last.op = "next" /\ last.result.is_some /\ boot_map[last.arg].entry_type = USABLE)
     => LET reg == last.result.value
        IN /\ reg.base % PAGE_SIZE = 0
           /\ reg.size >= 0
           /\ reg.size % PAGE_SIZE = 0
           /\ reg.base + reg.size <= entry_end(boot_map[last.arg])

\* every entry USABLE and page-aligned in base and length (NormMaps are disjoint)
AllUsableAligned(map) ==
  \A k \in 1..Len(map) :
    /\ map[k].entry_type = USABLE
    /\ map[k].base % PAGE_SIZE = 0
    /\ map[k].length % PAGE_SIZE = 0

AsRegion(e) == MemoryRegion(e.base, e.length)
NonEmpty(e) == e.length # 0
EntryPairs(map) == [k \in 1..Len(map) |-> AsRegion(map[k])]

\* the regions are all collected and nothing has been carved from them
Collected == status = "ready" /\ carved = <<>>

\* the statement as claimed: every zero-length entry is left out
C19_YieldsEntries ==
  (Collected /\ AllUsableAligned(boot_map))
  => memory_ranges = EntryPairs(SelectSeq(boot_map, NonEmpty))

\* C19. For a memory map whose entries are all USABLE, disjoint and
\* page-aligned in base and length, the normalizer yields the entries' (base,
\* length) pairs in map order, one region per entry; only a zero-length
\* first entry is left out, a zero-length entry further on yields a region
\* of size 0, so that the regions of size > 0 are the entries of length > 0.
C19_YieldsEntriesButFirstEmpty ==
  (Collected /\ AllUsableAligned(boot_map))
  => /\ memory_ranges = EntryPairs(IF NonEmpty(boot_map[1]) THEN boot_map
                                    ELSE Tail(boot_map))
     /\ SelectSeq(memory_ranges, LAMBDA r : r.size # 0)
          = EntryPairs(SelectSeq(boot_map, NonEmpty))

\* an aligned all-USABLE map with an empty entry after the first went through
C19_Witness ==
  /\ Collected
  /\ AllUsableAligned(boot_map)
  /\ last.op = "next"
  /\ Len(memory_ranges) >= 2
  /\ \E k \in 2..Len(boot_map) : ~NonEmpty(boot_map[k])
  /\ \E k \in 1..Len(boot_map) : NonEmpty(boot_map[k])

\* C20. BootstrapAlloc::allocate(size) rounds size up to a multiple of 4096,
\* takes the first region in list order whose size is >= the rounded size,
\* returns the HHDM-translated address of that region's old base, and moves
\* that region's base up and its size down by the rounded size, every other
\* region unchanged.
C20_BootstrapAllocate ==
  status = "ready" =>
    \A size \in AllocSizes :
      LET rounded == ((size + PAGE_SIZE - 1) \div PAGE_SIZE) * PAGE_SIZE
          fits == {k \in 1..Len(memory_ranges) : memory_ranges[k].size >= rounded}
          r == BootstrapAlloc_allocate(memory_ranges, size)
      IN fits # {}
         => /\ ~r.panic
            /\ BootstrapAlloc_allocate_ptr(memory_ranges, size)
                 = [hi |-> 256 * ENTRY_COUNT, lo |-> memory_ranges[Min(fits)].base]
            /\ r.ranges = [k \in 1..Len(memory_ranges) |->
                             IF k = Min(fits)
                             THEN [memory_ranges[k] EXCEPT !.base = @ + rounded,
                                                           !.size = @ - rounded]
                             ELSE memory_ranges[k]]

\* the last call asked for a size that is no multiple of the page size and
\* was served from a region other than the first, which was too small
C20_Witness ==
  /\ status = "ready"
  /\ last.op = "allocate"
  /\ last.arg % PAGE_SIZE # 0
  /\ last.result.is_some
  /\ Len(memory_ranges) >= 2
  /\ memory_ranges[1].size < PAGE_SIZE
  /\ last.result.value # memory_ranges[1].base - carved[Len(carved)].size
  /\ \E k \in 2..Len(memory_ranges) :
       last.result.value = memory_ranges[k].base - carved[Len(carved)].size

(***************************************************************************)
(* Claims about the bitmaps and the allocator's policy (Spec).             *)
(***************************************************************************)
\* the indices the words of bm hold
BitmapIndices(bm) == 0..(bm.bitmap_len * BLOCK_BITS - 1)

\* C21. Bitmap round trip: for every index i within the bitmap, is_set(i) is
\* true after set(i, true) and false after set(i, false), and is_set(j) is
\* unchanged for every j # i.
C21_BitmapRoundTrip ==
  \A o \in Orders :
    LET bm == allocator.buddies[o]
    IN \A i \in BitmapIndices(bm) :
         LET on == Bitmap_set(bm, i, TRUE)
             off == Bitmap_set(on, i, FALSE)
             clr == Bitmap_set(bm, i, FALSE)
         IN /\ ~is_set_panics(on, i)
            /\ Bitmap_is_set(on, i)
            /\ ~Bitmap_is_set(off, i)
            /\ ~Bitmap_is_set(clr, i)
            /\ on.bits \ {i} = bm.bits \ {i}
            /\ off.bits \ {i} = bm.bits \ {i}
            /\ clr.bits \ {i} = bm.bits \ {i}

\* bits have been set and cleared: a block was handed out and given back, and
\* some bitmap holds set and clear bits
C21_Witness ==
  /\ status = "ready"
  /\ last.op = "dealloc"
  /\ \E o \in Orders :
       /\ allocator.buddies[o].bits # {}
       /\ BitmapIndices(allocator.buddies[o]) \ allocator.buddies[o].bits # {}

(***************************************************************************)
(* Claims about the boot sequence (SpecStartup).                           *)
(***************************************************************************)
\* C22. In every boot execution no physical-to-virtual conversion
\* (as_hddm_virt), on the bootstrap processor or on an application processor,
\* happens before HHDM_OFFSET has been set: every conversion made read a set
\* cell, the value the cell holds now; and once set the value never changes.
C22_HhdmSetBeforeUse ==
  /\ [](\A c \in events.conversions : c.offset.is_some /\ c.offset = hhdm_offset)
  /\ [][hhdm_offset.is_some => hhdm_offset' = hhdm_offset]_vars

\* the bootstrap processor has converted addresses in four places and an
\* application processor has run ap_main to its end
C22_Witness ==
  /\ hhdm_offset.is_some
  /\ Cardinality(events.conversions) >= 4
  /\ \E c \in DOMAIN aps : aps[c].pc = Len(ap_main_steps) /\ ~aps[c].panicked

\* C23. In every boot execution FRAME_ALLOCATOR.init (paging::init) has
\* completed before the first map_page call starts: init_heap, the caller of
\* map_page during boot, is entered only with the allocator initialised, and so
\* is every map_page call it makes.
C23_AllocatorInitBeforeMapPage ==
  \A e \in events.heap_entries : e.ready /\ (e.map_calls > 0 => status # "boot")

\* init_heap has run and called map_page
C23_Witness ==
  /\ \E e \in events.heap_entries : e.map_calls > 0
  /\ heap.calls = 1
  /\ last.op = "init"

\* C26. An application processor never runs init_ap before the bootstrap
\* processor has finished apic::init and set BSP_READY; whenever an AP has
\* left its spin loop LOCAL_APIC is initialised; BSP_READY never returns to
\* false.
C26_ApWaitsForBsp ==
  /\ [](\A e \in events.ap_inits :
          e.ready /\ e.bsp_pc > StepIndex(molecule_main_steps, "apic_init"))
  /\ [](\A c \in DOMAIN aps :
          aps[c].pc > StepIndex(ap_main_steps, "spin") => LOCAL_APIC.is_some)
  /\ [][BSP_READY => BSP_READY']_vars

(***************************************************************************)
(* Claims about init_heap (SpecHeap).                                      *)
(***************************************************************************)
\* the k-th page of [HEAP_START, HEAP_START + HEAP_SIZE)
HeapPage(k) == page_containing(va_add(HEAP_START, (k - 1) * PAGE_SIZE))

\* every heap page is mapped PRESENT|WRITEABLE to the frame taken for it
HeapMapped(mem, root, frames) ==
  /\ Len(frames) = HeapPages
  /\ \A k \in 1..HeapPages :
       LET t == translate_page(mem, root, HeapPage(k))
           es == PathEntries(mem, root, HeapPage(k))
       IN /\ t.ok
          /\ t.frame = frames[k]
          /\ es[4].flags = {PRESENT, WRITEABLE}
          /\ BagIn(<<frames[k], 0>>, live)

Inside(u) == units[u].pc \in {"scan", "split", "merge", "drop"}

\* C25. Concurrent alloc/dealloc calls on FRAME_ALLOCATOR are atomic with
\* respect to each other: at most one unit is inside allocate_frame or
\* deallocate_frame at a time, and the allocator of every state in which no
\* unit is inside, like the result of every call that returns, is the one the
\* same calls give when each runs alone, in the order the lock was taken.
C25_CallsAtomic ==
  /\ Cardinality({u \in Units : Inside(u)}) <= 1
  /\ \A u \in Units : Inside(u) => lock = u
  /\ (status = "ready" /\ lock = 0) => allocator = shadow
  /\ \A u \in Units :
       (status = "ready" /\ units[u].pc = "drop") =>
         (allocator = shadow /\ units[u].result = units[u].seq_result)

\* one unit is between the scan and the split of an allocation while the
\* other has made its call and waits for the lock
C25_Witness ==
  /\ \E u \in Units : units[u].pc = "split"
  /\ \E u \in Units : units[u].pc = "wait"
  /\ BagCardinality(live) > 0

(***************************************************************************)
(* Claims about the allocation policy and the construction (Spec).         *)
(***************************************************************************)
\* the size classes from `order` up that hold a set bit
ClassesWithBlock(a, order) == {i \in order..(BUDDY_LEN - 1) : a.buddies[i].bits # {}}

\* the bits of class o after a split of the class-i block at r for a request
\* of class order, as the split policy has them: the block's own bit cleared,
\* the upper half of every split set
SplitBits(a, r, order, i, o) ==
  (a.buddies[o].bits \ (IF o = i THEN {get_bit_idx(a, r, i)} ELSE {}))
    \cup (IF order <= o /\ o < i THEN {get_bit_idx(a, r + BUDDY_SIZE[o], o)} ELSE {})

\* C27. Split policy: when allocate_frame(order) takes a free block of class
\* i > order at address r, then after the call the block [r, r +
\* BUDDY_SIZE[order]) is returned and is not marked free at any order, for each
\* class j with order <= j < i the upper half [r + BUDDY_SIZE[j], r + 2 *
\* BUDDY_SIZE[j]) of the split is marked free at class j, and no other bit
\* changes.
C27_SplitPolicy ==
  status = "ready" =>
    \A order \in Orders :
      LET cls == ClassesWithBlock(allocator, order)
          res == allocate_frame(allocator, order)
      IN (cls # {} /\ Min(cls) > order) =>
           LET i == Min(cls)
               r == find_free_addr(allocator, i, Min(allocator.buddies[i].bits))
           IN /\ ~res.panic
              /\ res.result = Some(r)
              /\ \A x \in FreeBlocks(res.a) :
                   ~Overlap(x[1], BUDDY_SIZE[x[2]], r, BUDDY_SIZE[order])
              /\ \A j \in order..(i - 1) : BitSet(res.a, r + BUDDY_SIZE[j], j)
              /\ \A o \in Orders : res.a.buddies[o].bits = SplitBits(allocator, r, order, i, o)

\* C28. allocate_frame(order) takes its block from the smallest size class
\* i >= order that has a free block, and within that class the free block with
\* the lowest bit index, which is the one at the lowest address; the classes
\* above i are not touched, and None is returned only when no class from order
\* up has a free block.
C28_SmallestClassLowestBit ==
  status = "ready" =>
    \A order \in Orders :
      LET cls == ClassesWithBlock(allocator, order)
          res == allocate_frame(allocator, order)
      IN IF cls = {} THEN ~res.result.is_some
         ELSE LET i == Min(cls)
                  idx == Min(allocator.buddies[i].bits)
              IN /\ res.result = Some(find_free_addr(allocator, i, idx))
                 /\ \A j \in allocator.buddies[i].bits :
                      find_free_addr(allocator, i, idx) <= find_free_addr(allocator, i, j)
                 /\ (i > order \/ ~res.panic) => idx \notin res.a.buddies[i].bits
                 /\ \A k \in (i + 1)..(BUDDY_LEN - 1) :
                      /\ res.a.buddies[k] = allocator.buddies[k]
                      /\ res.a.free[k] = allocator.free[k]

\* an allocation has been made, and now some request would go past an empty
\* class of its own into a larger class that holds two free blocks or more
C28_Witness ==
  /\ status = "ready"
  /\ last.op = "alloc"
  /\ last.result.is_some
  /\ \E order \in Orders :
       LET cls == ClassesWithBlock(allocator, order)
       IN /\ cls # {}
          /\ Min(cls) > order
          /\ Cardinality(allocator.buddies[Min(cls)].bits) >= 2

\* the pages of the block [addr, addr + size)
PagesOf(addr, size) == {addr + n * PAGE_SIZE : n \in 0..(size \div PAGE_SIZE - 1)}

\* every page of the block lies inside a region of the bootstrap allocator's
\* memory_ranges, the regions new() inserted
InFreeRegion(addr, size) ==
  \A pg \in PagesOf(addr, size) :
    \E k \in 1..Len(memory_ranges) :
      /\ memory_ranges[k].base <= pg
      /\ pg + PAGE_SIZE <= memory_ranges[k].base + memory_ranges[k].size

\* every page of the block lies inside a USABLE entry of the boot loader's memory map
InUsableEntry(addr, size) ==
  \A pg \in PagesOf(addr, size) :
    \E k \in 1..Len(boot_map) :
      /\ boot_map[k].entry_type = USABLE
      /\ boot_map[k].base <= pg
      /\ pg + PAGE_SIZE <= entry_end(boot_map[k])

\* C29. Every address returned by allocate_frame(order) is aligned to
\* BUDDY_SIZE[order], and the block [addr, addr + BUDDY_SIZE[order]) lies
\* inside [base, end) and entirely inside memory that belonged to a Free region
\* when the allocator was constructed, never in a hole between regions or in a
\* non-USABLE entry.
C29_BlocksInsideFreeMemory ==
  status = "ready" =>
    \A order \in Orders :
      LET res == allocate_frame(allocator, order)
          size == BUDDY_SIZE[order]
      IN res.result.is_some =>
           LET addr == res.result.value
           IN /\ addr % size = 0
              /\ allocator.base <= addr
              /\ addr + size <= allocator.end
              /\ InFreeRegion(addr, size)
              /\ InUsableEntry(addr, size)

\* the free blocks that start inside [b, e)
BlocksIn(a, b, e) == {x \in FreeBlocks(a) : b <= x[1] /\ x[1] < e}

\* the largest class aligned at addr that fits in len bytes
LargestClass(addr, len) ==
  CHOOSE o \in Orders :
    /\ addr % BUDDY_SIZE[o] = 0 /\ BUDDY_SIZE[o] <= len
    /\ \A q \in Orders : (addr % BUDDY_SIZE[q] = 0 /\ BUDDY_SIZE[q] <= len) => q <= o

\* C30. At construction, for every page-aligned Free region [b, e) the bits
\* set by insert_range tile it exactly: the blocks are pairwise disjoint, their
\* union is [b, e), each block is aligned to its own size, and each is of the
\* largest class that is aligned at its start address and fits in the
\* remaining length.
C30_InsertRangeTiles ==
  (status = "ready" /\ last.op = "init") =>
    \A k \in 1..Len(memory_ranges) :
      LET b == memory_ranges[k].base
          e == b + memory_ranges[k].size
          blocks == BlocksIn(allocator, b, e)
      IN (b % PAGE_SIZE = 0 /\ e % PAGE_SIZE = 0) =>
           /\ \A x \in blocks :
                /\ x[1] + BUDDY_SIZE[x[2]] <= e
                /\ x[1] % BUDDY_SIZE[x[2]] = 0
                /\ x[2] = LargestClass(x[1], e - x[1])
                /\ \A y \in blocks : x # y => ~BlocksOverlap(x, y)
           /\ \A n \in 0..((e - b) \div PAGE_SIZE - 1) :
                \E x \in blocks : Overlap(x[1], BUDDY_SIZE[x[2]], b + n * PAGE_SIZE, PAGE_SIZE)

\* an allocator was constructed over a region that takes three blocks or more,
\* of two classes or more
C30_Witness ==
  /\ status = "ready"
  /\ last.op = "init"
  /\ \E k \in 1..Len(memory_ranges) :
       LET b == memory_ranges[k].base
           e == b + memory_ranges[k].size
       IN /\ b % PAGE_SIZE = 0 /\ e % PAGE_SIZE = 0
          /\ Cardinality(BlocksIn(allocator, b, e)) >= 3
          /\ Cardinality({x[2] : x \in BlocksIn(allocator, b, e)}) >= 2

(***************************************************************************)
(* Claims about the bounds and the bit indices (SpecOrder, Spec).          *)
(***************************************************************************)
\* the regions new() writes into the region array for a memory map
new_regions(map) ==
  LET k == carve_entry(map)
      req == requested_size(map)
  IN IF k = 0 THEN <<>>
     ELSE collect_regions([map EXCEPT ![k].base = @ + req, ![k].length = @ - req],
                          initial_cursor([map EXCEPT ![k].base = @ + req,
                                                     ![k].length = @ - req]),
                          <<>>).regions

\* the entries of the map are in ascending order of base address
AscendingMap(map) == \A i, j \in 1..Len(map) : i < j => map[i].base <= map[j].base

\* the blocks <<addr, order>> that lie inside region r, aligned to their size
BlocksInside(r) ==
  {x \in {r.base + n * PAGE_SIZE : n \in 0..(r.size \div PAGE_SIZE)} \X Orders :
     /\ x[1] % BUDDY_SIZE[x[2]] = 0
     /\ x[1] + BUDDY_SIZE[x[2]] <= r.base + r.size}

\* after new() the bounds span the regions of the map and every block of a
\* region has a bit index inside its bitmap
BoundsSpan ==
  LET rs == new_regions(boot_map)
  IN /\ status = "ready"
     /\ allocator.base = bounds_base(rs)
     /\ allocator.end = bounds_end(rs)
     /\ \A k \in 1..Len(rs) :
          /\ allocator.base <= rs[k].base
          /\ rs[k].base + rs[k].size <= allocator.end
          /\ \A x \in BlocksInside(rs[k]) : ~bit_access_panics(allocator, x[1], x[2])

PathIndices(page) == <<p4_index(page), p3_index(page), p2_index(page)>>

\* the tables that exist on the page's path before the call, from the root
\* down to the first one whose entry for the page is unused
RECURSIVE ExistingTables(_, _, _, _)
ExistingTables(mem, table, idxs, k) ==
  IF k > Len(idxs) THEN <<>>
  ELSE IF is_unused(entry_at(mem, table, idxs[k])) THEN <<table>>
  ELSE <<table>> \o ExistingTables(mem, entry_addr(entry_at(mem, table, idxs[k])), idxs, k + 1)

\* the number of intermediate tables the page's path lacks before the call
MissingTables(mem, root, page) ==
  LET ex == ExistingTables(mem, root, PathIndices(page), 1)
  IN IF is_unused(entry_at(mem, ex[Len(ex)], PathIndices(page)[Len(ex)]))
     THEN 4 - Len(ex) ELSE 0

\* the walk of map_page after the first k levels of the page's path
WalkPrefix(mem, a, root, page, k, reread) ==
  map_walk(mem, a, root, SubSeq(PathIndices(page), 1, k), 1, <<>>, reread)

\* what a map_page call that got its frames did to the tables
TablesAsClaimed(mem, a, root, page, r, reread) ==
  LET ex == ExistingTables(mem, root, PathIndices(page), 1)
      n == MissingTables(mem, root, page)
  IN /\ Len(r.taken) = n
     /\ n = 0 => r.a = a
     /\ \A k \in (4 - n)..3 :
          LET w == WalkPrefix(mem, a, root, page, k, reread)
          IN /\ Len(w.taken) = k - (3 - n)
             /\ w.mem[w.taken[Len(w.taken)]] = ZeroTable
     /\ \A k \in 1..Len(ex) :
          \A i \in (DOMAIN mem[ex[k]]) \cup (DOMAIN r.mem[ex[k]]) :
            (i # PathIndex(page, k) \/ k < Len(ex) \/ n = 0)
              => entry_at(r.mem, ex[k], i) = entry_at(mem, ex[k], i)

RunsOutOfFrames(mem, a, root, page, reread) ==
  \E k \in 1..3 : WalkPrefix(mem, a, root, page, k, reread).failed

\* the addresses whose translation is looked at
TranslateProbes == {va_add(v, off) : v \in VPages, off \in Offsets}

RECURSIVE FreeBytes(_, _)
FreeBytes(a, o) ==
  IF o >= BUDDY_LEN THEN 0 ELSE a.free[o] * BUDDY_SIZE[o] + FreeBytes(a, o + 1)

\* the bytes of the blocks of S held in bag b
RECURSIVE BlockBytes(_, _)
BlockBytes(b, S) ==
  IF S = {} THEN 0
  ELSE LET x == CHOOSE y \in S : TRUE
       IN CopiesIn(x, b) * BUDDY_SIZE[x[2]] + BlockBytes(b, S \ {x})

LiveBytes(b) == BlockBytes(b, BagToSet(b))

\* C34. Conservation: in every reachable state after construction and any
\* sequence of valid allocate/deallocate calls, the bytes marked free in the
\* bitmaps (the sum over orders of free[o] * BUDDY_SIZE[o]) plus the bytes of
\* the live allocations equal the free-byte total at construction: no call
\* changes the sum, which at construction is the free-byte total.
C34_Conservation ==
  [][(status = "ready" /\ status' = "ready")
       => FreeBytes(allocator', 0) + LiveBytes(live')
            = FreeBytes(allocator, 0) + LiveBytes(live)]_vars

\* C35. For every block (addr, order) returned by allocate_frame and still
\* held, deallocate_frame(addr, order) completes without panicking: every
\* buddy address it examines is at or above base and every bit index it reads
\* or writes lies within the bitmap of that order.
C35_DeallocNeverPanics ==
  status = "ready" =>
    \A blk \in BagToSet(live) : ~deallocate_frame(allocator, blk[1], blk[2]).panic

\* the addresses of class o inside [base, end): aligned to the class size
ClassAddrs(a, o) ==
  {x \in {n * BUDDY_SIZE[o] : n \in 0..(a.end \div BUDDY_SIZE[o])} :
     a.base <= x /\ x + BUDDY_SIZE[o] <= a.end}

\* C36. For every order o and every address x >= base aligned to
\* BUDDY_SIZE[o], the bit index used by set_bit/clear_bit, (x - base) /
\* BUDDY_SIZE[o], and the address computed by find_free, align_up(base,
\* BUDDY_SIZE[o]) + idx * BUDDY_SIZE[o], are inverse to each other, also when
\* base is not aligned to BUDDY_SIZE[o]; so a block inserted or freed at
\* address x is one find_free hands out at address x.
C36_IndexAddressInverse ==
  status = "ready" =>
    \A o \in Orders :
      /\ \A x \in ClassAddrs(allocator, o) :
           /\ find_free_addr(allocator, o, get_bit_idx(allocator, x, o)) = x
           /\ LET s == set_bit(allocator, x, o)
                  bits == s.a.buddies[o].bits
              IN ~s.panic =>
                   \E idx \in bits : find_free_addr(s.a, o, idx) = x
      /\ \A idx \in 0..(allocator.end \div BUDDY_SIZE[o]) :
           get_bit_idx(allocator, find_free_addr(allocator, o, idx), o) = idx

\* a block of class 1 or 2 was handed out by an allocator whose base is not
\* aligned to the size of that class
C36_Witness ==
  /\ status = "ready"
  /\ last.op = "alloc"
  /\ last.order \in {1, 2}
  /\ last.result.is_some
  /\ allocator.base % BUDDY_SIZE[last.order] # 0
  /\ ClassAddrs(allocator, last.order) # {}

\* C37. Self-hosted metadata is never free: after BuddyFrameAllocator::new no
\* block marked free in any bitmap overlaps the memory carved out for the
\* MemoryRegion array or for the bitmaps, the carved ranges are pairwise
\* disjoint, and no later allocation hands out the allocator's own metadata.
C37_MetadataNeverFree ==
  status = "ready" =>
    /\ \A x \in FreeBlocks(allocator) :
         \A k \in 1..Len(carved) :
           ~Overlap(x[1], BUDDY_SIZE[x[2]], carved[k].base, carved[k].size)
    /\ \A j, k \in 1..Len(carved) :
         j # k => ~Overlap(carved[j].base, carved[j].size, carved[k].base, carved[k].size)
    /\ \A blk \in BagToSet(live) :
         \A k \in 1..Len(carved) :
           ~Overlap(blk[1], BUDDY_SIZE[blk[2]], carved[k].base, carved[k].size)

\* the array and three bitmaps or more were carved, blocks are free and one
\* has been handed out
C37_Witness ==
  /\ status = "ready"
  /\ Len(carved) >= 4
  /\ \A k \in 1..Len(carved) : carved[k].size > 0
  /\ FreeBlocks(allocator) # {}
  /\ BagCardinality(live) > 0

\* C38. The value returned by total_memory() is the same in every state after
\* FRAME_ALLOCATOR.init: allocate_frame and deallocate_frame never change the
\* allocator's size field, so the query reports the free memory at
\* construction, not the memory currently free.
C38_TotalMemoryConstant ==
  [][status # "boot" => total_memory' = total_memory]_vars

\* blocks are held, one has just been given back, and total_memory() is above
\* the bytes the free counters stand for
C38_Witness ==
  /\ status = "ready"
  /\ last.op = "dealloc"
  /\ BagCardinality(live) > 0
  /\ total_memory > FreeBytes(allocator, 0)

(***************************************************************************)
(* Claims about what a page-map call leaves alone (SpecUser).              *)
(***************************************************************************)
\* the addresses whose translation is compared before and after a call
UserProbes == UserPages \cup {VA(0, 0, 0, 1, 1), VA(1, 0, 0, 0, 0)}

\* no frame the allocator has handed out is held twice
NoFrameTwice == \A x \in BagToSet(live) : CopiesIn(x, live) = 1

\* the frames of q are pairwise distinct and none is held
FreshFrames(q) ==
  /\ \A i, j \in 1..Len(q) : i # j => q[i] # q[j]
  /\ \A i \in 1..Len(q) : ~BagIn(<<q[i], 0>>, live)

\* from memory `was` to memory `now` a call on page `page` of space k left
\* every other page of that space and every user-half page of the other
\* spaces as they were
OthersUntouched(was, now, k, page) ==
  /\ \A v \in UserProbes :
       page_containing(v) # page =>
         translate_addr(now, spaces[k], v) = translate_addr(was, spaces[k], v)
  /\ \A j \in 1..Len(spaces), v \in UserProbes :
       (spaces[j] # spaces[k] /\ p4_index(v) < 256) =>
         translate_addr(now, spaces[j], v) = translate_addr(was, spaces[j], v)

Refs(f) ==
  {x \in UNION {{<<t, i>> : i \in DOMAIN phys[t]} : t \in DOMAIN phys} :
     entry_addr(phys[x[1]][x[2]]) = f}

\* every unit has made its call and got Ok
AllMapped == \A u \in Units : units[u].pc = "done" /\ units[u].result = "Ok"

\* every page translates to the frame passed in, and every table frame
\* allocated during the calls is referenced by exactly one entry
NothingLost ==
  \A u \in Units :
    /\ translate_addr(phys, pml4, units[u].page)
         = [panic |-> FALSE, result |-> Some(RaceFrame(u))]
    /\ \A n \in 1..Len(units[u].taken) : Cardinality(Refs(units[u].taken[n])) = 1

====
